---- MODULE Spec2Model ----
(***************************************************************************)
(* Model of the itinerary scoring engine (src/utils/scoring.py) and of    *)
(* the request handlers that write the tables it reads.                   *)
(*                                                                         *)
(* Numbers are exact rationals [n, d] in lowest terms with d > 0: Python  *)
(* ints and the floats the engine derives from them by +, * and /.        *)
(* A call's outcome is a record whose exc field names the exception the   *)
(* call raises ("" when it returns).                                      *)
(***************************************************************************)
EXTENDS Integers, Sequences, FiniteSets, TLC

VARIABLES
    crew_members,      \* table crew_members: rows in rowid order
    program_scores,    \* table program_scores: rows in rowid order
    crew_preferences,  \* table crew_preferences: rows in rowid order
    scoring_factors,   \* table scoring_factors: rows in rowid order
    scorer,            \* <<>> or <<the PhilmontScorer instance in use>>
    ret,               \* <<>> or <<the followed (or last) call and its outcome>>
    agg_scores,        \* argument list of _calculate_aggregate
    agg_method,        \* method argument of _calculate_aggregate
    agg_ret,           \* outcome of _calculate_aggregate, or NotCalled
    itineraries,       \* table itineraries: rows in rowid order
    runs               \* the calculate_itinerary_scores calls in progress

dbvars  == <<crew_members, program_scores, crew_preferences, scoring_factors>>
aggvars == <<agg_scores, agg_method, agg_ret>>
vars    == <<crew_members, program_scores, crew_preferences, scoring_factors,
             scorer, ret, agg_scores, agg_method, agg_ret, itineraries, runs>>

----------------------------------------------------------------------------
(* Bounds *)

MaxLen     == 3      \* longest list handed to _calculate_aggregate
MaxMembers == 2      \* largest crew member id
MaxForm    == 2      \* most score fields in one posted scores form

----------------------------------------------------------------------------
(* Exact arithmetic *)

Abs(x) == IF x < 0 THEN -x ELSE x

RECURSIVE GCD(_, _)
GCD(a, b) == IF b = 0 THEN a ELSE GCD(b, a % b)

Norm(n, d) ==
    LET g == GCD(Abs(n), d)
    IN  IF n = 0 THEN [n |-> 0, d |-> 1] ELSE [n |-> n \div g, d |-> d \div g]

Num(i)     == [n |-> i, d |-> 1]
Frac(i, j) == Norm(i, j)
Zero       == Num(0)

RAdd(a, b) == Norm(a.n * b.d + b.n * a.d, a.d * b.d)
RMul(a, b) == Norm(a.n * b.n, a.d * b.d)
RDivInt(a, k) == Norm(a.n, a.d * k)          \* k > 0
RLt(a, b)  == a.n * b.d < b.n * a.d
RLe(a, b)  == a.n * b.d <= b.n * a.d

\* builtin sum(): left fold starting from 0
RECURSIVE sum(_)
sum(s) == IF s = <<>> THEN Zero ELSE RAdd(sum(SubSeq(s, 1, Len(s) - 1)), s[Len(s)])

----------------------------------------------------------------------------
(* Outcomes *)

Return(v) == [exc |-> "", val |-> v]
Raise(e)  == [exc |-> e, val |-> Zero]

NotCalled == [exc |-> "not called", val |-> Zero]

\* a Python list or dict that a loop has filled: every entry is computed
\* once, when the collection is built
List(f) == f \o <<>>
Dict(f) == f @@ <<>>

\* a local variable: F applied to the value v that was assigned to it
Let(v, F(_)) == F(v)

\* dict.get(key, default)
DictGet(d, key, default) == IF key \in DOMAIN d THEN d[key] ELSE default

----------------------------------------------------------------------------
(* Aggregator: PhilmontScorer._calculate_aggregate *)

\* builtin sorted(): stable ascending sort
RECURSIVE InsertSorted(_, _)
InsertSorted(s, x) ==
    IF s = <<>> THEN <<x>>
    ELSE IF RLt(x, s[Len(s)])
         THEN Append(InsertSorted(SubSeq(s, 1, Len(s) - 1), x), s[Len(s)])
         ELSE Append(s, x)

\* sorted() left out: the list as it came
sorted_omitted(s) == s

RECURSIVE sorted(_)
sorted(s) == IF s = <<>> THEN <<>>
             ELSE InsertSorted(sorted(SubSeq(s, 1, Len(s) - 1)), s[Len(s)])

\* collections.Counter(scores): distinct values in order of first occurrence;
\* ks holds the keys of s[1..k-1]
RECURSIVE CounterKeysFrom(_, _, _)
CounterKeysFrom(s, k, ks) ==
    IF k > Len(s) THEN ks
    ELSE CounterKeysFrom(s, k + 1,
                         IF \E i \in 1..Len(ks) : ks[i] = s[k] THEN ks
                         ELSE Append(ks, s[k]))

CounterKeys(s) == CounterKeysFrom(s, 1, <<>>)

Count(s, v) == Cardinality({i \in 1..Len(s) : s[i] = v})

\* most_common(1) keeping the last of several maximal items
MostCommonLast(s, ks) ==
    IF ks = <<>> THEN <<>>
    ELSE << ks[CHOOSE i \in 1..Len(ks) :
                 /\ \A j \in 1..Len(ks) : Count(s, ks[j]) <= Count(s, ks[i])
                 /\ \A j \in (i + 1)..Len(ks) : Count(s, ks[j]) < Count(s, ks[i])] >>

\* Counter.most_common(1) on the keys ks: max() over the items by count,
\* which keeps the first of several maximal items; the empty list when
\* there are no items
MostCommonOf(s, ks) ==
    IF ks = <<>> THEN <<>>
    ELSE << ks[CHOOSE i \in 1..Len(ks) :
                 /\ \A j \in 1..Len(ks) : Count(s, ks[j]) <= Count(s, ks[i])
                 /\ \A j \in 1..(i - 1) : Count(s, ks[j]) < Count(s, ks[i])] >>

most_common_1(s) == MostCommonOf(s, CounterKeys(s))

\* the Median branch once sorted_scores = sorted(scores) is bound
MedianOf(sorted_scores) ==
    LET n == Len(sorted_scores)
    IN  IF n = 0 THEN Raise("IndexError")     \* sorted_scores[-1] of an empty list
        ELSE IF n % 2 = 0
             THEN Return(RDivInt(RAdd(sorted_scores[n \div 2],
                                      sorted_scores[n \div 2 + 1]), 2))
             ELSE Return(sorted_scores[n \div 2 + 1])

calculate_aggregate_Median(scores) == MedianOf(sorted(scores))

calculate_aggregate_Mode(scores) ==
    Let(most_common_1(scores),
        LAMBDA mc : IF mc = <<>> THEN Raise("IndexError")  \* most_common(1)[0] of []
                    ELSE Return(mc[1]))

\* the aggregator with the final else branch rejecting the name
calculate_aggregate_strict(scores, method) ==
    IF method = "Total" THEN Return(sum(scores))
    ELSE IF method = "Average"
         THEN IF Len(scores) = 0 THEN Raise("ZeroDivisionError")
              ELSE Return(RDivInt(sum(scores), Len(scores)))
    ELSE IF method = "Median" THEN calculate_aggregate_Median(scores)
    ELSE IF method = "Mode" THEN calculate_aggregate_Mode(scores)
    ELSE Raise("ValueError")

calculate_aggregate(scores, method) ==
    IF method = "Total" THEN Return(sum(scores))
    ELSE IF method = "Average"
         THEN IF Len(scores) = 0 THEN Raise("ZeroDivisionError")
              ELSE Return(RDivInt(sum(scores), Len(scores)))
    ELSE IF method = "Median" THEN calculate_aggregate_Median(scores)
    ELSE IF method = "Mode" THEN calculate_aggregate_Mode(scores)
    ELSE Return(sum(scores))

----------------------------------------------------------------------------
(* SQL values.  A nullable column holds <<>> (NULL, Python None) or <<v>>. *)
(* Boolean columns hold 0 or 1, as sqlite3 stores Python bools.           *)

Null      == <<>>
Some(v)   == <<v>>
IsNull(x) == x = <<>>
OrZero(x) == IF x = <<>> THEN 0 ELSE x[1]            \* Python "x or 0"
Truthy(x) == x # <<>> /\ x[1] # 0                    \* nullable integer

\* ORDER BY of a query: stable insertion sort of <<key, row>> pairs on the
\* integer key (a row with an equal key stays behind the rows before it)
RECURSIVE InsertKeyed(_, _)
InsertKeyed(s, x) ==
    IF s = <<>> THEN <<x>>
    ELSE IF x[1] < s[Len(s)][1]
         THEN Append(InsertKeyed(SubSeq(s, 1, Len(s) - 1), x), s[Len(s)])
         ELSE Append(s, x)

RECURSIVE SortKeyed(_)
SortKeyed(s) ==
    IF s = <<>> THEN <<>>
    ELSE InsertKeyed(SortKeyed(SubSeq(s, 1, Len(s) - 1)), s[Len(s)])

Seconds(ks) == List([i \in 1..Len(ks) |-> ks[i][2]])

OrderBy(s, Key(_)) ==
    Seconds(SortKeyed(List([i \in 1..Len(s) |-> <<Key(s[i]), s[i]>>])))

\* rows of a table (a sequence in rowid order) that satisfy a WHERE clause
Where(s, P(_)) == SelectSeq(s, P)

----------------------------------------------------------------------------
(* The catalog: tables the engine reads and no modelled handler writes.   *)
(* itinerary_code is the rank of the code string in the collation that    *)
(* ORDER BY itinerary_code uses.                                           *)

programs ==
    << [id |-> 1, name |-> "Landmarks: Baldy Mountain"],
       [id |-> 2, name |-> "Fishing"],
       [id |-> 3, name |-> "Landmarks: Tooth of Time"],
       [id |-> 4, name |-> "Landmarks: Mount Phillips"],
       [id |-> 5, name |-> "Landmarks: Inspiration Point"],
       [id |-> 6, name |-> "Landmarks: Trail Peak"],
       [id |-> 7, name |-> "Landmarks: Mountaineering"] >>

BaseItinerary ==
    [ id |-> 0, itinerary_code |-> 0, trek_type |-> "12-day",
      difficulty |-> "R", distance |-> Null,
      covers_south |-> 0, covers_central |-> 0, covers_north |-> 0,
      covers_valle_vidal |-> 0,
      max_altitude |-> Null, total_elevation_gain |-> Null,
      avg_daily_elevation_change |-> Null,
      starts_at |-> "Bus", ends_at |-> "Bus",
      dry_camps |-> Null, trail_camps |-> Null,
      days_food_from_base |-> Null, max_days_food |-> Null,
      baldy_mountain |-> 0, mount_phillips |-> 0, tooth_of_time |-> 0,
      inspiration_point |-> 0, trail_peak |-> 0, mountaineering |-> 0 ]

TwinItinerary ==
    [ BaseItinerary EXCEPT
      !.difficulty = "SS", !.covers_north = 1, !.covers_valle_vidal = 1,
      !.max_altitude = Some(12441), !.avg_daily_elevation_change = Some(200),
      !.ends_at = "Hike In", !.dry_camps = Some(0), !.trail_camps = Some(9),
      !.days_food_from_base = Some(1), !.max_days_food = Some(12),
      !.baldy_mountain = 1, !.tooth_of_time = 1 ]

\* rows in rowid order; rows 2 and 3 differ in id and code only
Catalog ==
    << [ BaseItinerary EXCEPT
         !.id = 1, !.itinerary_code = 3, !.difficulty = "C",
         !.distance = Some(Num(60)), !.covers_south = 1, !.covers_central = 1,
         !.max_altitude = Some(10500), !.total_elevation_gain = Some(4000),
         !.avg_daily_elevation_change = Some(650),
         !.starts_at = "Hike Out", !.dry_camps = Some(3), !.trail_camps = Some(4),
         !.days_food_from_base = Some(3), !.max_days_food = Some(4),
         !.baldy_mountain = 1 ],
       [ TwinItinerary EXCEPT !.id = 2, !.itinerary_code = 2 ],
       [ TwinItinerary EXCEPT !.id = 3, !.itinerary_code = 1 ],
       [ BaseItinerary EXCEPT
         !.id = 4, !.itinerary_code = 4, !.trek_type = "9-day",
         !.distance = Some(Frac(73, 2)), !.covers_north = 1, !.covers_valle_vidal = 1,
         !.max_altitude = Some(8000), !.total_elevation_gain = Some(4600),
         !.avg_daily_elevation_change = Some(200), !.starts_at = "Hike Out",
         !.ends_at = "Hike In", !.dry_camps = Some(1), !.trail_camps = Some(2) ],
       [ BaseItinerary EXCEPT
         !.id = 5, !.itinerary_code = 5, !.trek_type = "9-day", !.difficulty = "C",
         !.distance = Some(Num(50)), !.covers_south = 1, !.covers_central = 1,
         !.max_altitude = Some(9000), !.total_elevation_gain = Some(1000),
         !.avg_daily_elevation_change = Some(650),
         !.dry_camps = Some(3), !.trail_camps = Some(4),
         !.days_food_from_base = Some(3), !.max_days_food = Some(4),
         !.baldy_mountain = 1, !.mount_phillips = 1, !.tooth_of_time = 1,
         !.inspiration_point = 1, !.trail_peak = 1, !.mountaineering = 1 ],
       [ BaseItinerary EXCEPT
         !.id = 6, !.itinerary_code = 6, !.trek_type = "9-day", !.difficulty = "S",
         !.distance = Some(Num(70)), !.covers_south = 1, !.covers_central = 1,
         !.covers_north = 1, !.covers_valle_vidal = 1,
         !.max_altitude = Some(0), !.avg_daily_elevation_change = Some(1200),
         !.starts_at = "Hike Out", !.dry_camps = Some(8),
         !.days_food_from_base = Some(1), !.max_days_food = Some(12),
         !.baldy_mountain = 1 ],
       [ BaseItinerary EXCEPT
         !.id = 7, !.itinerary_code = 7, !.trek_type = "9-day", !.difficulty = "SS",
         !.max_altitude = Some(12500), !.total_elevation_gain = Some(7000),
         !.dry_camps = Some(0), !.trail_camps = Some(1),
         !.max_days_food = Some(1),
         !.mount_phillips = 1, !.mountaineering = 1 ] >>

itinerary_programs ==
    << [itinerary_id |-> 1, program_id |-> 1, is_available |-> 1, trek_type |-> "12-day"],
       [itinerary_id |-> 1, program_id |-> 2, is_available |-> 1, trek_type |-> "12-day"],
       [itinerary_id |-> 1, program_id |-> 3, is_available |-> 0, trek_type |-> "12-day"],
       [itinerary_id |-> 2, program_id |-> 2, is_available |-> 1, trek_type |-> "12-day"],
       [itinerary_id |-> 3, program_id |-> 2, is_available |-> 1, trek_type |-> "12-day"],
       [itinerary_id |-> 2, program_id |-> 1, is_available |-> 1, trek_type |-> "9-day"],
       [itinerary_id |-> 3, program_id |-> 1, is_available |-> 1, trek_type |-> "9-day"],
       [itinerary_id |-> 4, program_id |-> 1, is_available |-> 1, trek_type |-> "9-day"],
       [itinerary_id |-> 4, program_id |-> 2, is_available |-> 0, trek_type |-> "9-day"],
       [itinerary_id |-> 4, program_id |-> 4, is_available |-> 1, trek_type |-> "12-day"],
       [itinerary_id |-> 5, program_id |-> 2, is_available |-> 1, trek_type |-> "9-day"],
       [itinerary_id |-> 5, program_id |-> 4, is_available |-> 1, trek_type |-> "9-day"],
       [itinerary_id |-> 6, program_id |-> 1, is_available |-> 1, trek_type |-> "9-day"] >>

camps ==
    << [id |-> 1, has_showers |-> 1], [id |-> 2, has_showers |-> 0] >>

itinerary_camps ==
    << [itinerary_id |-> 1, camp_id |-> 1, is_layover |-> 0],
       [itinerary_id |-> 1, camp_id |-> 2, is_layover |-> 1],
       [itinerary_id |-> 2, camp_id |-> 2, is_layover |-> 0],
       [itinerary_id |-> 3, camp_id |-> 2, is_layover |-> 0],
       [itinerary_id |-> 5, camp_id |-> 2, is_layover |-> 0],
       [itinerary_id |-> 5, camp_id |-> 1, is_layover |-> 1],
       [itinerary_id |-> 6, camp_id |-> 2, is_layover |-> 0] >>

\* the tables handlers write, as one value
DB == [ crew_members |-> crew_members, program_scores |-> program_scores,
        crew_preferences |-> crew_preferences, scoring_factors |-> scoring_factors ]

\* fetchone() of the crew's crew_preferences row: <<>> or <<row>>
PrefsRow(db, crew_id) ==
    Where(db.crew_preferences, LAMBDA r : r.crew_id = crew_id)

\* dict.get(key, default) on {} or dict(row)
PrefGet(crew_prefs, key, default) ==
    IF crew_prefs = <<>> THEN default ELSE crew_prefs[1][key]

----------------------------------------------------------------------------
(* PhilmontScorer: an instance is [crew_id, trek_type, factors, skill_table] *)
(* where factors is <<>> while _scoring_factors is None and <<map>> once   *)
(* loaded, and skill_table tells whether the attribute                    *)
(* _skill_difficulty_factors has been set.                                *)

PhilmontScorer(crew_id, trek_type) ==
    [ crew_id |-> crew_id, trek_type |-> trek_type,
      factors |-> <<>>, skill_table |-> FALSE ]

DefaultFactors ==
    [ programFactor |-> Frac(3, 2), difficultDelta |-> Num(1),
      maxDifficult |-> Num(1000), maxSkill |-> Num(4000),
      skillDelta |-> Num(1), mileageFactor |-> Num(100),
      minDifficult |-> Num(500) ]

\* the table with the class C entries of skill levels 5 and 6 exchanged
skill_difficulty_factors_exchanged ==
    << [C |-> 5000, R |-> 3500, S |-> 2000, SS |-> 500],
       [C |-> 4500, R |-> 3333, S |-> 2167, SS |-> 1000],
       [C |-> 4000, R |-> 3167, S |-> 2333, SS |-> 1500],
       [C |-> 3500, R |-> 3000, S |-> 2500, SS |-> 2000],
       [C |-> 2500, R |-> 2833, S |-> 2667, SS |-> 2500],
       [C |-> 3000, R |-> 2667, S |-> 2833, SS |-> 3000],
       [C |-> 2000, R |-> 2500, S |-> 3000, SS |-> 3500],
       [C |-> 1500, R |-> 2333, S |-> 3167, SS |-> 4000],
       [C |-> 1000, R |-> 2167, S |-> 3333, SS |-> 4500],
       [C |-> 500,  R |-> 2000, S |-> 3500, SS |-> 5000] >>

skill_difficulty_factors ==
    << [C |-> 5000, R |-> 3500, S |-> 2000, SS |-> 500],
       [C |-> 4500, R |-> 3333, S |-> 2167, SS |-> 1000],
       [C |-> 4000, R |-> 3167, S |-> 2333, SS |-> 1500],
       [C |-> 3500, R |-> 3000, S |-> 2500, SS |-> 2000],
       [C |-> 3000, R |-> 2833, S |-> 2667, SS |-> 2500],
       [C |-> 2500, R |-> 2667, S |-> 2833, SS |-> 3000],
       [C |-> 2000, R |-> 2500, S |-> 3000, SS |-> 3500],
       [C |-> 1500, R |-> 2333, S |-> 3167, SS |-> 4000],
       [C |-> 1000, R |-> 2167, S |-> 3333, SS |-> 4500],
       [C |-> 500,  R |-> 2000, S |-> 3500, SS |-> 5000] >>

\* the dict _load_scoring_factors builds from the active rows: a later row
\* of the same code overwrites an earlier one, then setdefault for the
\* seven codes
FactorsOf(active) ==
    LET rowsOf(c) == {i \in 1..Len(active) : active[i].factor_code = c}
        last(c)   == CHOOSE i \in rowsOf(c) : \A j \in rowsOf(c) : j <= i
    IN  Dict([c \in {active[i].factor_code : i \in 1..Len(active)}
                      \cup DOMAIN DefaultFactors |->
                IF rowsOf(c) # {} THEN active[last(c)].multiplier
                ELSE DefaultFactors[c]])

load_scoring_factors(db) ==
    FactorsOf(Where(db.scoring_factors, LAMBDA r : r.is_active = 1))

\* the instance after a get_score_factor call
after_get_score_factor(s, db) ==
    IF s.factors = <<>>
    THEN [s EXCEPT !.factors = <<load_scoring_factors(db)>>, !.skill_table = TRUE]
    ELSE s

\* a lookup that answers the default while the factors are not loaded
get_score_factor_unloaded(s, db, factor_code) ==
    IF s.factors = <<>> THEN Num(1)
    ELSE DictGet(s.factors[1], factor_code, Num(1))

get_score_factor(s, db, factor_code) ==
    DictGet(after_get_score_factor(s, db).factors[1], factor_code, Num(1))

\* builtin round() of the float n/d: to nearest, a tie to the even integer
round(x) ==
    LET q == (2 * x.n + x.d) \div (2 * x.d)
    IN  IF (2 * x.n + x.d) % (2 * x.d) = 0 /\ q % 2 = 1 THEN q - 1 ELSE q

Min(a, b) == IF a < b THEN a ELSE b
Max(a, b) == IF a > b THEN a ELSE b

\* AVG(skill_level) over the fetched rows: <<>> (NULL) when there are none
Avg(vals) == IF vals = <<>> THEN Null ELSE Some(RDivInt(sum(vals), Len(vals)))

\* the branch on skill_data["avg_skill"]: NULL and 0 are falsy
SkillLevelOf(avg_skill) ==
    IF avg_skill # Null /\ avg_skill[1] # Zero
    THEN Max(1, Min(10, round(avg_skill[1]))) ELSE 5

SkillValues(rows) == List([i \in 1..Len(rows) |-> Num(rows[i].skill_level[1])])

get_crew_skill_level(s, db) ==
    SkillLevelOf(Avg(SkillValues(
        Where(db.crew_members,
              LAMBDA m : m.crew_id = s.crew_id /\ m.skill_level # Null))))

\* the lookup once crew_skill_level is bound
DifficultyFactorOf(s, itinerary_difficulty, skill) ==
    IF ~s.skill_table THEN Raise("AttributeError")
    ELSE IF /\ skill \in DOMAIN skill_difficulty_factors
            /\ itinerary_difficulty \in DOMAIN skill_difficulty_factors[skill]
         THEN Return(Num(skill_difficulty_factors[skill][itinerary_difficulty]))
         ELSE Return(Num(2000))

\* crew_skill_level is <<>> for the default argument None
set_itinerary_difficulty_factor(s, db, itinerary_difficulty, crew_skill_level) ==
    DifficultyFactorOf(s, itinerary_difficulty,
                       IF crew_skill_level = <<>> THEN get_crew_skill_level(s, db)
                       ELSE crew_skill_level[1])

----------------------------------------------------------------------------
(* PhilmontScorer.get_program_scores *)

ProgramExists(program_id) == \E i \in 1..Len(programs) : programs[i].id = program_id

MemberRow(db, member_id) == Where(db.crew_members, LAMBDA m : m.id = member_id)

\* the columns (p.id, ps.score, cm.age) of the joined rows
ScoreColumns(db, ordered) ==
    List([i \in 1..Len(ordered) |->
            [ id |-> ordered[i].program_id, score |-> ordered[i].score,
              age |-> MemberRow(db, ordered[i].crew_member_id)[1].age ]])

\* the joined rows ORDER BY p.id, ps.crew_member_id
ProgramScoreRows(db, crew_id) ==
    ScoreColumns(db,
        OrderBy(OrderBy(Where(db.program_scores,
                              LAMBDA ps : /\ ps.crew_id = crew_id
                                          /\ ProgramExists(ps.program_id)
                                          /\ MemberRow(db, ps.crew_member_id) # <<>>),
                        LAMBDA ps : ps.crew_member_id),
                LAMBDA ps : ps.program_id))

\* "adult_weight_enabled and member_age > 20": the comparison is evaluated
\* only when the flag is truthy, and None > 20 raises TypeError
IsAdultRow(adult_weight_enabled, row) ==
    IF adult_weight_enabled = 0 THEN Return(FALSE)
    ELSE IF row.age = Null THEN Raise("TypeError")
    ELSE Return(row.age[1] > 20)

\* score_value of one row: the outcome of the loop body up to the grouping
WeightedScoreOf(adult, adult_weight_percent, row) ==
    IF adult.exc # "" THEN adult
    ELSE IF ~adult.val THEN Return(Num(row.score))
    ELSE IF adult_weight_percent = Null THEN Raise("TypeError")  \* None / 100.0
    ELSE Return(RMul(Num(row.score), Frac(adult_weight_percent[1], 100)))

WeightedScore(adult_weight_enabled, adult_weight_percent, row) ==
    WeightedScoreOf(IsAdultRow(adult_weight_enabled, row), adult_weight_percent, row)

\* current_scores of program p when its group is closed
current_scores(scores, values, p) ==
    Let(SelectSeq([i \in 1..Len(scores) |-> i], LAMBDA i : scores[i].id = p),
        LAMBDA idx : List([k \in 1..Len(idx) |-> values[idx[k]].val]))

\* the grouping loop over the fetched rows and their score_values
GroupAndAggregate(scores, values, method) ==
    IF \E i \in 1..Len(scores) : values[i].exc # ""
    THEN Raise("TypeError")
    ELSE Return(Dict([p \in {scores[i].id : i \in 1..Len(scores)} |->
                        calculate_aggregate(current_scores(scores, values, p),
                                            method).val]))

\* the loop once prefs and scores are fetched
AggregateRows(prefs, scores, method) ==
    GroupAndAggregate(
        scores,
        List([i \in 1..Len(scores) |->
                WeightedScore(
                    IF prefs # <<>> THEN prefs[1].adult_program_weight_enabled ELSE 0,
                    IF prefs # <<>> THEN prefs[1].adult_program_weight_percent
                    ELSE Some(100),
                    scores[i])]),
        method)

get_program_scores(s, db, method) ==
    AggregateRows(PrefsRow(db, s.crew_id), ProgramScoreRows(db, s.crew_id), method)

----------------------------------------------------------------------------
(* Sub-scorers *)

\* the sum over the fetched available_programs
ProgramTotal(available_programs, program_scores_map) ==
    sum(List([i \in 1..Len(available_programs) |->
                DictGet(program_scores_map, available_programs[i].program_id, Zero)]))

\* the query without its trek_type condition
calculate_program_score_any_trek_type(s, db, itinerary_id, program_scores_map) ==
    RMul(ProgramTotal(Where(itinerary_programs,
                            LAMBDA ip : /\ ip.itinerary_id = itinerary_id
                                        /\ ip.is_available = 1),
                      program_scores_map),
         get_score_factor(s, db, "programFactor"))

calculate_program_score(s, db, itinerary_id, program_scores_map) ==
    RMul(ProgramTotal(Where(itinerary_programs,
                            LAMBDA ip : /\ ip.itinerary_id = itinerary_id
                                        /\ ip.is_available = 1
                                        /\ ip.trek_type = s.trek_type),
                      program_scores_map),
         get_score_factor(s, db, "programFactor"))

DifficultyFlag(difficulty) ==
    IF difficulty = "C" THEN "difficulty_challenging"
    ELSE IF difficulty = "R" THEN "difficulty_rugged"
    ELSE IF difficulty = "S" THEN "difficulty_strenuous"
    ELSE "difficulty_super_strenuous"

\* the score with the crew's accept flags ignored
calculate_difficulty_score_always_accepted(s, db, itinerary, crew_prefs) ==
    IF itinerary.difficulty \notin {"C", "R", "S", "SS"}
    THEN Return(Zero)
    ELSE Let(set_itinerary_difficulty_factor(s, db, itinerary.difficulty, <<>>),
             LAMBDA difficulty_factor :
                IF difficulty_factor.exc # "" THEN difficulty_factor
                ELSE Return(RMul(difficulty_factor.val,
                                 get_score_factor(s, db, "difficultDelta"))))

calculate_difficulty_score(s, db, itinerary, crew_prefs) ==
    IF ~ /\ itinerary.difficulty \in {"C", "R", "S", "SS"}
         /\ PrefGet(crew_prefs, DifficultyFlag(itinerary.difficulty), 1) # 0
    THEN Return(Zero)
    ELSE Let(set_itinerary_difficulty_factor(s, db, itinerary.difficulty, <<>>),
             LAMBDA difficulty_factor :
                IF difficulty_factor.exc # "" THEN difficulty_factor
                ELSE Return(RMul(difficulty_factor.val,
                                 get_score_factor(s, db, "difficultDelta"))))

rank_scores == <<1000, 600, 200, 150>>

\* the best region alone counted, instead of every covered region
calculate_area_score_best_region(itinerary, crew_prefs) ==
    LET areas == << <<"covers_south", "area_rank_south">>,
                    <<"covers_central", "area_rank_central">>,
                    <<"covers_north", "area_rank_north">>,
                    <<"covers_valle_vidal", "area_rank_valle_vidal">> >>
        rank(i) == PrefGet(crew_prefs, areas[i][2], Some(0))
        part(i) == IF itinerary[areas[i][1]] # 0 /\ Truthy(rank(i))
                   THEN IF rank(i)[1] \in DOMAIN rank_scores
                        THEN rank_scores[rank(i)[1]] ELSE 0
                   ELSE 0
    IN  IF PrefGet(crew_prefs, "area_important", 0) = 0 THEN 0
        ELSE Max(Max(part(1), part(2)), Max(part(3), part(4)))

calculate_area_score(itinerary, crew_prefs) ==
    LET areas == << <<"covers_south", "area_rank_south">>,
                    <<"covers_central", "area_rank_central">>,
                    <<"covers_north", "area_rank_north">>,
                    <<"covers_valle_vidal", "area_rank_valle_vidal">> >>
        rank(i) == PrefGet(crew_prefs, areas[i][2], Some(0))
        part(i) == IF itinerary[areas[i][1]] # 0 /\ Truthy(rank(i))
                   THEN IF rank(i)[1] \in DOMAIN rank_scores
                        THEN rank_scores[rank(i)[1]] ELSE 0
                   ELSE 0
    IN  IF PrefGet(crew_prefs, "area_important", 0) = 0 THEN 0
        ELSE part(1) + part(2) + part(3) + part(4)

\* the loop over sorted(table.items(), reverse=True), on a table listed in
\* ascending threshold order: the points of the first threshold, from the
\* highest down, that the value reaches, else the default
RECURSIVE FloorLookupFrom(_, _, _, _)
FloorLookupFrom(table, k, value, default) ==
    IF k = 0 THEN default
    ELSE IF value >= table[k][1] THEN table[k][2]
    ELSE FloorLookupFrom(table, k - 1, value, default)

FloorLookup(table, value, default) == FloorLookupFrom(table, Len(table), value, default)

altitude_scores ==
    << <<8999, 20>>, <<9000, 30>>, <<9100, 40>>, <<9200, 50>>, <<9800, 60>>,
       <<10000, 70>>, <<10500, 80>>, <<10600, 90>>, <<10800, 100>>,
       <<11000, 110>>, <<11800, 120>>, <<12441, 130>> >>

elevation_gain_scores ==
    << <<1499, 40>>, <<1500, 50>>, <<2000, 60>>, <<2500, 70>>, <<3000, 80>>,
       <<3500, 90>>, <<4000, 100>>, <<4500, 90>>, <<5000, 80>>, <<5500, 70>>,
       <<6000, 60>>, <<6500, 50>> >>

daily_change_scores ==
    << <<300, 100>>, <<600, 300>>, <<900, 200>>, <<1200, 100>> >>

\* the elevation gain part gated by the max altitude flag
calculate_altitude_score_one_gate(itinerary, crew_prefs) ==
    LET max_altitude == OrZero(itinerary.max_altitude)
        total_gain   == OrZero(itinerary.total_elevation_gain)
        daily_change == OrZero(itinerary.avg_daily_elevation_change)
        altitude_part ==
            IF PrefGet(crew_prefs, "max_altitude_important", 0) # 0 /\ max_altitude > 0
            THEN FloorLookup(altitude_scores, max_altitude, 20) ELSE 0
        gain_part ==
            IF PrefGet(crew_prefs, "max_altitude_important", 0) # 0 /\ total_gain > 0
            THEN FloorLookup(elevation_gain_scores, total_gain, 40) ELSE 0
        daily_part ==
            IF PrefGet(crew_prefs, "altitude_change_important", 0) # 0 /\ daily_change > 0
            THEN FloorLookup(daily_change_scores, daily_change, 100) ELSE 0
    IN  altitude_part + gain_part + daily_part

calculate_altitude_score(itinerary, crew_prefs) ==
    LET max_altitude == OrZero(itinerary.max_altitude)
        total_gain   == OrZero(itinerary.total_elevation_gain)
        daily_change == OrZero(itinerary.avg_daily_elevation_change)
        altitude_part ==
            IF PrefGet(crew_prefs, "max_altitude_important", 0) # 0 /\ max_altitude > 0
            THEN FloorLookup(altitude_scores, max_altitude, 20) ELSE 0
        gain_part ==
            IF PrefGet(crew_prefs, "total_elevation_gain_important", 0) # 0 /\ total_gain > 0
            THEN FloorLookup(elevation_gain_scores, total_gain, 40) ELSE 0
        daily_part ==
            IF PrefGet(crew_prefs, "altitude_change_important", 0) # 0 /\ daily_change > 0
            THEN FloorLookup(daily_change_scores, daily_change, 100) ELSE 0
    IN  altitude_part + gain_part + daily_part

\* a null distance read as 0 miles
calculate_distance_score_null_zero(s, db, itinerary) ==
    LET distance == IF itinerary.distance # Null THEN itinerary.distance[1] ELSE Zero
    IN  RMul(distance, get_score_factor(s, db, "mileageFactor"))

calculate_distance_score(s, db, itinerary) ==
    LET distance == IF itinerary.distance # Null THEN itinerary.distance[1] ELSE Num(50)
    IN  RMul(distance, get_score_factor(s, db, "mileageFactor"))

\* both preferences unset when the record does not hold them
calculate_hike_score_default_unset(itinerary, crew_prefs) ==
    (IF PrefGet(crew_prefs, "hike_out_preference", 0) # 0 /\ itinerary.starts_at = "Hike Out"
     THEN 500 ELSE 0)
    + (IF PrefGet(crew_prefs, "hike_in_preference", 0) # 0 /\ itinerary.ends_at = "Hike In"
       THEN 500 ELSE 0)

calculate_hike_score(itinerary, crew_prefs) ==
    (IF PrefGet(crew_prefs, "hike_out_preference", 1) # 0 /\ itinerary.starts_at = "Hike Out"
     THEN 500 ELSE 0)
    + (IF PrefGet(crew_prefs, "hike_in_preference", 1) # 0 /\ itinerary.ends_at = "Hike In"
       THEN 500 ELSE 0)

dry_camp_scores   == <<300, 250, 225, 200, 150, 100, 50, 20>>         \* keys 0..7
trail_camp_scores == <<250, 200, 175, 150, 125, 100, 75, 50, 25>>     \* keys 0..8
total_camp_scores == [c \in 3..10 |-> <<60, 70, 80, 90, 100, 75, 60, 50>>[c - 2]]

\* the penalty taken off the table value instead of replacing it
dry_camp_part_table_kept(itinerary, crew_prefs) ==
    LET dry_camp_count == OrZero(itinerary.dry_camps)
        max_dry_camps  == PrefGet(crew_prefs, "max_dry_camps", Null)
        dry_table      == dry_camp_scores[Min(dry_camp_count, 7) + 1]
    IN  IF max_dry_camps # Null /\ dry_camp_count > max_dry_camps[1]
        THEN dry_table - (dry_camp_count - max_dry_camps[1]) * 500
        ELSE dry_table

\* dry camps: the table value within the limit or with no limit, else the
\* penalty alone
dry_camp_part(itinerary, crew_prefs) ==
    LET dry_camp_count == OrZero(itinerary.dry_camps)
        max_dry_camps  == PrefGet(crew_prefs, "max_dry_camps", Null)
        dry_table      == dry_camp_scores[Min(dry_camp_count, 7) + 1]
    IN  IF max_dry_camps # Null
        THEN IF dry_camp_count <= max_dry_camps[1] THEN dry_table
             ELSE 0 - (dry_camp_count - max_dry_camps[1]) * 500
        ELSE dry_table

trail_camp_part(itinerary) ==
    trail_camp_scores[Min(OrZero(itinerary.trail_camps), 8) + 1]

total_camps_part(itinerary) ==
    LET total_camps == OrZero(itinerary.dry_camps) + OrZero(itinerary.trail_camps)
    IN  IF total_camps \in DOMAIN total_camp_scores
        THEN total_camp_scores[total_camps] ELSE 0

\* camps JOIN itinerary_camps, then any(camp["has_showers"])
showers_part(itinerary, crew_prefs) ==
    LET camp_rows == Where(itinerary_camps, LAMBDA ic : ic.itinerary_id = itinerary.id)
        has_showers ==
            \E i \in 1..Len(camp_rows) : \E j \in 1..Len(camps) :
                camps[j].id = camp_rows[i].camp_id /\ camps[j].has_showers # 0
    IN  IF PrefGet(crew_prefs, "showers_required", 0) = 0 THEN 0
        ELSE IF has_showers THEN 1000 ELSE 0 - 1500

\* the query without its is_layover condition
layovers_part_any_camp(itinerary, crew_prefs) ==
    IF PrefGet(crew_prefs, "layovers_required", 0) = 0 THEN 0
    ELSE IF Where(itinerary_camps, LAMBDA ic : ic.itinerary_id = itinerary.id) # <<>>
         THEN 800 ELSE 0 - 1200

layovers_part(itinerary, crew_prefs) ==
    LET camp_rows == Where(itinerary_camps, LAMBDA ic : ic.itinerary_id = itinerary.id)
        has_layovers == \E i \in 1..Len(camp_rows) : camp_rows[i].is_layover = 1
    IN  IF PrefGet(crew_prefs, "layovers_required", 0) = 0 THEN 0
        ELSE IF has_layovers THEN 800 ELSE 0 - 1200

low_starting_food_part(itinerary, crew_prefs) ==
    LET days_food_from_base == OrZero(itinerary.days_food_from_base)
    IN  IF PrefGet(crew_prefs, "prefer_low_starting_food", 0) # 0 /\ days_food_from_base > 0
        THEN 20 + (days_food_from_base - 1) * 10 ELSE 0

\* food_score added as it is, without max(food_score, 0)
shorter_resupply_part_unclamped(itinerary, crew_prefs) ==
    LET max_days_food == OrZero(itinerary.max_days_food)
    IN  IF PrefGet(crew_prefs, "prefer_shorter_resupply", 0) # 0 /\ max_days_food > 0
        THEN 100 + (max_days_food - 1) * (0 - 10) ELSE 0

shorter_resupply_part(itinerary, crew_prefs) ==
    LET max_days_food == OrZero(itinerary.max_days_food)
    IN  IF PrefGet(crew_prefs, "prefer_shorter_resupply", 0) # 0 /\ max_days_food > 0
        THEN Max(100 + (max_days_food - 1) * (0 - 10), 0) ELSE 0

calculate_camp_score(itinerary, crew_prefs) ==
    dry_camp_part(itinerary, crew_prefs) + trail_camp_part(itinerary)
      + total_camps_part(itinerary) + showers_part(itinerary, crew_prefs)
      + layovers_part(itinerary, crew_prefs)
      + low_starting_food_part(itinerary, crew_prefs)
      + shorter_resupply_part(itinerary, crew_prefs)

\* pref_key, Landmarks program, multiplier, itinerary column
peaks ==
    << [pref_key |-> "climb_baldy", landmark |-> "Landmarks: Baldy Mountain",
        multiplier |-> Num(2), column |-> "baldy_mountain"],
       [pref_key |-> "climb_phillips", landmark |-> "Landmarks: Mount Phillips",
        multiplier |-> Frac(3, 2), column |-> "mount_phillips"],
       [pref_key |-> "climb_tooth", landmark |-> "Landmarks: Tooth of Time",
        multiplier |-> Frac(3, 2), column |-> "tooth_of_time"],
       [pref_key |-> "climb_inspiration_point", landmark |-> "Landmarks: Inspiration Point",
        multiplier |-> Num(1), column |-> "inspiration_point"],
       [pref_key |-> "climb_trail_peak", landmark |-> "Landmarks: Trail Peak",
        multiplier |-> Frac(3, 2), column |-> "trail_peak"],
       [pref_key |-> "climb_others", landmark |-> "Landmarks: Mountaineering",
        multiplier |-> Frac(6, 5), column |-> "mountaineering"] >>

\* program_scores[pref_key] from the fetched score_results: <<>> when there
\* are none, else <<aggregate of the raw scores, in rowid order>>
PeakAggregate(score_results, method) ==
    IF score_results = <<>> THEN <<>>
    ELSE <<calculate_aggregate(
              List([i \in 1..Len(score_results) |-> Num(score_results[i].score)]),
              method).val>>

\* the second query of the loop, once program_result is fetched
PeakScoresOf(s, db, program_result, method) ==
    IF program_result = <<>> THEN <<>>
    ELSE PeakAggregate(Where(db.program_scores,
                             LAMBDA ps : /\ ps.program_id = program_result[1].id
                                         /\ ps.crew_id = s.crew_id),
                       method)

\* the per-peak re-query: <<>> when the program or its ratings are missing
PeakProgramScore(s, db, landmark_name, method) ==
    PeakScoresOf(s, db, Where(programs, LAMBDA p : p.name = landmark_name), method)

\* the multiplier applied whether or not the crew asked for the peak
PeakPartAlwaysMultiplied(s, db, itinerary, crew_prefs, peak, base) ==
    IF itinerary[peak.column] # 0 /\ base # <<>>
    THEN RMul(RMul(base[1], peak.multiplier),
              get_score_factor(s, db, "programFactor"))
    ELSE Zero

\* what one peak adds to score; base is program_scores.get(pref_key)
PeakPart(s, db, itinerary, crew_prefs, peak, base) ==
    IF itinerary[peak.column] # 0 /\ base # <<>>
    THEN IF PrefGet(crew_prefs, peak.pref_key, 0) # 0
         THEN RMul(RMul(base[1], peak.multiplier),
                   get_score_factor(s, db, "programFactor"))
         ELSE RMul(base[1], get_score_factor(s, db, "programFactor"))
    ELSE Zero

calculate_peak_score(s, db, itinerary, crew_prefs, method) ==
    sum(List([i \in 1..Len(peaks) |->
                PeakPart(s, db, itinerary, crew_prefs, peaks[i],
                         PeakProgramScore(s, db, peaks[i].landmark, method))]))

----------------------------------------------------------------------------
(* PhilmontScorer.calculate_itinerary_scores *)

get_crew_preferences(s, db) == PrefsRow(db, s.crew_id)

\* SELECT * FROM itineraries WHERE trek_type = ? ORDER BY itinerary_code
ItineraryRows(trek_type) ==
    OrderBy(Where(itineraries, LAMBDA it : it.trek_type = trek_type),
            LAMBDA it : it.itinerary_code)

\* the dict score_components of one itinerary; s is the instance as the loop
\* body finds it and s1 the instance that the get_score_factor call inside
\* _calculate_program_score leaves behind, which every later entry sees
ComponentsOf(s, s1, db, itin, program_scores_map, crew_prefs, method) ==
    [ program_score    |-> calculate_program_score(s, db, itin.id, program_scores_map),
      difficulty_score |-> calculate_difficulty_score(s1, db, itin, crew_prefs),
      area_score       |-> Num(calculate_area_score(itin, crew_prefs)),
      altitude_score   |-> Num(calculate_altitude_score(itin, crew_prefs)),
      distance_score   |-> calculate_distance_score(s1, db, itin),
      hike_score       |-> Num(calculate_hike_score(itin, crew_prefs)),
      camp_score       |-> Num(calculate_camp_score(itin, crew_prefs)),
      peak_score       |-> calculate_peak_score(s1, db, itin, crew_prefs, method) ]

score_components(s, db, itin, program_scores_map, crew_prefs, method) ==
    ComponentsOf(s, after_get_score_factor(s, db), db, itin, program_scores_map,
                 crew_prefs, method)

\* the sum with the last entry left out
total_score_without_peak(c) ==
    sum(<< c.program_score, c.difficulty_score, c.area_score, c.altitude_score,
           c.distance_score, c.hike_score, c.camp_score >>)

\* sum(score_components.values()), in insertion order
total_score(c) ==
    sum(<< c.program_score, c.difficulty_score, c.area_score, c.altitude_score,
           c.distance_score, c.hike_score, c.camp_score, c.peak_score >>)

\* an insertion that puts x ahead of the entries with an equal total_score
RECURSIVE InsertResultBeforeEqual(_, _)
InsertResultBeforeEqual(rs, x) ==
    IF rs = <<>> THEN <<x>>
    ELSE IF RLe(rs[Len(rs)].total_score, x.total_score)
         THEN Append(InsertResultBeforeEqual(SubSeq(rs, 1, Len(rs) - 1), x), rs[Len(rs)])
         ELSE Append(rs, x)

\* results.sort(key=total_score, reverse=True): stable, descending
RECURSIVE InsertResult(_, _)
InsertResult(rs, x) ==
    IF rs = <<>> THEN <<x>>
    ELSE IF RLt(rs[Len(rs)].total_score, x.total_score)
         THEN Append(InsertResult(SubSeq(rs, 1, Len(rs) - 1), x), rs[Len(rs)])
         ELSE Append(rs, x)

\* the sort left out: results in catalog order
sort_results_omitted(rs) == rs

RECURSIVE sort_results(_)
sort_results(rs) ==
    IF rs = <<>> THEN <<>>
    ELSE InsertResult(sort_results(SubSeq(rs, 1, Len(rs) - 1)), rs[Len(rs)])

\* the instance as iteration i of the loop finds it
scorer_at(s, db, i) == IF i = 1 THEN s ELSE after_get_score_factor(s, db)

\* one entry of results, before the sort: raw holds the outcome of
\* _calculate_difficulty_score, and exc the exception it raised, if any
ResultOf(itin, raw, c) ==
    [ itinerary |-> itin, total_score |-> total_score(c),
      components |-> c, exc |-> raw.difficulty_score.exc ]

Unwrapped(raw) == [raw EXCEPT !.difficulty_score = raw.difficulty_score.val]

ResultOfRaw(itin, raw) == ResultOf(itin, raw, Unwrapped(raw))

ScoreItinerary(s, db, itin, program_scores_map, crew_prefs, method) ==
    ResultOfRaw(itin, score_components(s, db, itin, program_scores_map, crew_prefs,
                                       method))

\* the ranking loop over the sorted results
Ranked(sorted_results) ==
    List([i \in 1..Len(sorted_results) |->
            [ itinerary |-> sorted_results[i].itinerary,
              total_score |-> sorted_results[i].total_score,
              components |-> sorted_results[i].components,
              ranking |-> i ]])

\* the sort and the ranking, once the scoring loop has filled results
SortAndRank(results) ==
    IF \E i \in 1..Len(results) : results[i].exc # "" THEN Raise("AttributeError")
    ELSE Return(Ranked(sort_results(results)))

\* the body of calculate_itinerary_scores once program_scores, crew_prefs
\* and the itineraries are fetched
RankItineraries(s, db, method, program_scores_out, crew_prefs, rows) ==
    IF program_scores_out.exc # "" THEN Raise(program_scores_out.exc)
    ELSE IF rows = <<>> THEN Return(<<>>)
    ELSE SortAndRank(List([i \in 1..Len(rows) |->
                             ScoreItinerary(scorer_at(s, db, i), db, rows[i],
                                            program_scores_out.val, crew_prefs,
                                            method)]))

calculate_itinerary_scores(s, db, method) ==
    RankItineraries(s, db, method, get_program_scores(s, db, method),
                    get_crew_preferences(s, db), ItineraryRows(s.trek_type))

\* the instance after the call
after_calculate_itinerary_scores(s, db, method) ==
    IF get_program_scores(s, db, method).exc # "" \/ ItineraryRows(s.trek_type) = <<>>
    THEN s
    ELSE after_get_score_factor(s, db)

----------------------------------------------------------------------------
(* Inputs of the handlers *)

CrewIds      == {1}
TrekInputs   == {"12-day", "7-day"}
\* the four method names, and two names that are none of them
MethodInputs == {"Total", "Average", "Median", "Mode", "Maximum", "total"}
ProgramInputs == {1, 2}

BoundedSeq(S, n) == UNION {[1..k -> S] : k \in 0..n}

\* the age and skill_level fields of the member forms
MemberForms ==
    { [age |-> Null,     skill_level |-> Some(6)],
      [age |-> Some(16), skill_level |-> Some(3)],
      [age |-> Some(30), skill_level |-> Some(9)] }

\* one score_<member>_<program> field of the scores form
ScoreFields ==
    { [crew_member_id |-> m, program_id |-> p, score |-> (((m + p) % 2) + 1) * 5] :
        m \in 1..MaxMembers, p \in ProgramInputs }

\* a posted scores form: fields in form order, each key at most once
ScoreForms ==
    { f \in BoundedSeq(ScoreFields, MaxForm) :
        \A i, j \in 1..Len(f) : i # j => f[i] # f[j] }

UncheckedPreferences ==
    [ crew_id |-> 1, area_important |-> 0,
      area_rank_south |-> Null, area_rank_central |-> Null,
      area_rank_north |-> Null, area_rank_valle_vidal |-> Null,
      max_altitude_important |-> 0, total_elevation_gain_important |-> 0,
      altitude_change_important |-> 0, daily_altitude_change_threshold |-> Null,
      difficulty_challenging |-> 0, difficulty_rugged |-> 0,
      difficulty_strenuous |-> 0, difficulty_super_strenuous |-> 0,
      climb_baldy |-> 0, climb_phillips |-> 0, climb_tooth |-> 0,
      climb_inspiration_point |-> 0, climb_trail_peak |-> 0, climb_others |-> 0,
      hike_in_preference |-> 0, hike_out_preference |-> 0, programs_important |-> 0,
      adult_program_weight_enabled |-> 0, adult_program_weight_percent |-> Null,
      max_dry_camps |-> Null, showers_required |-> 0, layovers_required |-> 0,
      prefer_low_starting_food |-> 0, prefer_shorter_resupply |-> 0,
      trek_type |-> "12-day" ]

\* the rows save_preferences writes for three posted forms
PreferenceForms ==
    { UncheckedPreferences,
      [ UncheckedPreferences EXCEPT
        !.area_important = 1, !.area_rank_south = Some(1),
        !.area_rank_central = Some(2), !.area_rank_valle_vidal = Some(5),
        !.max_altitude_important = 1, !.total_elevation_gain_important = 1,
        !.altitude_change_important = 1,
        !.difficulty_challenging = 1, !.difficulty_rugged = 1,
        !.difficulty_strenuous = 1,
        !.climb_baldy = 1, !.hike_in_preference = 1, !.hike_out_preference = 1,
        !.programs_important = 1,
        !.adult_program_weight_enabled = 1, !.adult_program_weight_percent = Some(50),
        !.max_dry_camps = Some(2), !.showers_required = 1, !.layovers_required = 1,
        !.prefer_low_starting_food = 1, !.prefer_shorter_resupply = 1 ],
      [ UncheckedPreferences EXCEPT
        !.difficulty_challenging = 1, !.difficulty_super_strenuous = 1,
        !.climb_tooth = 1, !.hike_out_preference = 1,
        !.adult_program_weight_enabled = 1, !.max_dry_camps = Some(0),
        !.showers_required = 1, !.trek_type = "9-day" ] }

\* contents of the scoring_factors table
FactorTable ==
    << [factor_code |-> "mileageFactor", multiplier |-> Num(1), is_active |-> 1],
       [factor_code |-> "difficultDelta", multiplier |-> Frac(1, 2), is_active |-> 0] >>

AggValues == {Num(5), Num(10), Frac(15, 2)}

----------------------------------------------------------------------------
(* Initial states *)

InitAggIdle ==
    /\ agg_scores = <<>>
    /\ agg_method = ""
    /\ agg_ret = NotCalled

\* the database as shipped: with or without a preference row for crew 1
Init ==
    /\ crew_members = <<>>
    /\ program_scores = <<>>
    /\ crew_preferences \in {<<>>, <<UncheckedPreferences>>}
    /\ scoring_factors = FactorTable
    /\ scorer = <<>>
    /\ ret = <<>>
    /\ itineraries = Catalog
    /\ runs = <<>>
    /\ InitAggIdle

----------------------------------------------------------------------------
(* Handlers that write the tables.  Each commit ends the following of a     *)
(* call: ret is reset.                                                      *)

MemberIdsOf(db) == {db.crew_members[i].id : i \in 1..Len(db.crew_members)}

\* routes/admin.py add_member: the new row gets the next rowid
add_member(form) ==
    LET ids == MemberIdsOf(DB)
        new_id == IF ids = {} THEN 1 ELSE (CHOOSE i \in ids : \A j \in ids : j <= i) + 1
    IN  /\ new_id <= MaxMembers
        /\ crew_members' = Append(crew_members,
               [id |-> new_id, crew_id |-> 1, age |-> form.age,
                skill_level |-> form.skill_level])
        /\ ret' = <<>>
        /\ UNCHANGED <<program_scores, crew_preferences, scoring_factors, scorer, aggvars, itineraries, runs>>

\* routes/admin.py edit_member
edit_member(member_id, form) ==
    /\ member_id \in MemberIdsOf(DB)
    /\ crew_members' = [i \in 1..Len(crew_members) |->
          IF crew_members[i].id = member_id
          THEN [crew_members[i] EXCEPT !.age = form.age, !.skill_level = form.skill_level]
          ELSE crew_members[i]]
    /\ crew_members' # crew_members
    /\ ret' = <<>>
    /\ UNCHANGED <<program_scores, crew_preferences, scoring_factors, scorer, aggvars, itineraries, runs>>

\* routes/admin.py delete_member: the member's scores, then the member
delete_member(member_id) ==
    /\ member_id \in MemberIdsOf(DB)
    /\ program_scores' = Where(program_scores, LAMBDA ps : ps.crew_member_id # member_id)
    /\ crew_members' = Where(crew_members, LAMBDA m : m.id # member_id)
    /\ ret' = <<>>
    /\ UNCHANGED <<crew_preferences, scoring_factors, scorer, aggvars, itineraries, runs>>

\* routes/scores.py save_scores: crew 1's rows are replaced by the form's
save_scores(form) ==
    /\ program_scores' =
          Where(program_scores, LAMBDA ps : ps.crew_id # 1)
          \o [i \in 1..Len(form) |->
                [ crew_id |-> 1, crew_member_id |-> form[i].crew_member_id,
                  program_id |-> form[i].program_id, score |-> form[i].score ]]
    /\ program_scores' # program_scores
    /\ ret' = <<>>
    /\ UNCHANGED <<crew_members, crew_preferences, scoring_factors, scorer, aggvars, itineraries, runs>>

\* routes/base.py save_preferences: update crew 1's row.  With no row the
\* INSERT binds 31 values to its 30 placeholders: execute() raises
\* sqlite3.ProgrammingError before the commit, and nothing is written
save_preferences(form) ==
    /\ PrefsRow(DB, 1) # <<>>
    /\ crew_preferences' =
          [i \in 1..Len(crew_preferences) |->
              IF crew_preferences[i].crew_id = 1 THEN form ELSE crew_preferences[i]]
    /\ crew_preferences' # crew_preferences
    /\ ret' = <<>>
    /\ UNCHANGED <<crew_members, program_scores, scoring_factors, scorer, aggvars, itineraries, runs>>

----------------------------------------------------------------------------
(* Calls on a scorer.  ret follows one call: the first one made since the   *)
(* tables last changed, and after it every repetition of that call (same    *)
(* operation, same constructor arguments, same method).  Other calls made   *)
(* meanwhile act on the instance and are not recorded.                      *)

\* calls is 1 after the first call and 2 after any repetition
CallRecord(op, s, method, out) ==
    [ op |-> op, crew_id |-> s.crew_id, trek_type |-> s.trek_type,
      method |-> method, out |-> out,
      calls |-> IF ret = <<>> THEN 1 ELSE 2 ]

\* whether the call (op, s, method) is the one ret follows, or may become it
Followed(op, s, method) ==
    IF ret = <<>> THEN TRUE
    ELSE /\ ret[1].op = op /\ ret[1].method = method
         /\ ret[1].crew_id = s.crew_id /\ ret[1].trek_type = s.trek_type

\* PhilmontScorer(crew_id, trek_type); the followed call is kept while it is
\* a call with the new instance's arguments
NewScorer(crew_id, trek_type) ==
    /\ scorer' = <<PhilmontScorer(crew_id, trek_type)>>
    /\ scorer' # scorer
    /\ ret' = IF ret # <<>> /\ ret[1].crew_id = crew_id /\ ret[1].trek_type = trek_type
              THEN ret ELSE <<>>
    /\ UNCHANGED <<dbvars, aggvars, itineraries, runs>>

CallGetProgramScores(method) ==
    /\ scorer # <<>>
    /\ Followed("get_program_scores", scorer[1], method)
    /\ ret' = <<CallRecord("get_program_scores", scorer[1], method,
                           get_program_scores(scorer[1], DB, method))>>
    /\ UNCHANGED <<dbvars, scorer, aggvars, itineraries, runs>>

CallCalculateItineraryScores(method) ==
    /\ scorer # <<>>
    /\ ret' = IF Followed("calculate_itinerary_scores", scorer[1], method)
              THEN <<CallRecord("calculate_itinerary_scores", scorer[1], method,
                                calculate_itinerary_scores(scorer[1], DB, method))>>
              ELSE ret
    /\ scorer' = <<after_calculate_itinerary_scores(scorer[1], DB, method)>>
    /\ UNCHANGED <<dbvars, aggvars, itineraries, runs>>

Next ==
    \/ \E form \in MemberForms : add_member(form)
    \/ \E member_id \in 1..MaxMembers, form \in MemberForms : edit_member(member_id, form)
    \/ \E member_id \in 1..MaxMembers : delete_member(member_id)
    \/ \E form \in ScoreForms : save_scores(form)
    \/ \E form \in PreferenceForms : save_preferences(form)
    \/ \E crew_id \in CrewIds, trek_type \in TrekInputs : NewScorer(crew_id, trek_type)
    \/ \E method \in MethodInputs : CallGetProgramScores(method)
    \/ \E method \in MethodInputs : CallCalculateItineraryScores(method)

Spec == Init /\ [][Next]_vars

----------------------------------------------------------------------------
(* The aggregator on its own: every list up to MaxLen, every method *)

InitAgg ==
    /\ crew_members = <<>>
    /\ program_scores = <<>>
    /\ crew_preferences = <<>>
    /\ scoring_factors = FactorTable
    /\ scorer = <<>>
    /\ ret = <<>>
    /\ itineraries = Catalog
    /\ runs = <<>>
    /\ agg_scores \in BoundedSeq(AggValues, MaxLen)
    /\ agg_method = ""
    /\ agg_ret = NotCalled

Aggregate(method) ==
    /\ agg_method' = method
    /\ agg_ret' = calculate_aggregate(agg_scores, method)
    /\ UNCHANGED <<dbvars, scorer, ret, agg_scores, itineraries, runs>>

NextAgg == \E method \in MethodInputs : Aggregate(method)

SpecAgg == InitAgg /\ [][NextAgg]_vars

----------------------------------------------------------------------------
(* The sub-scorers over the 9-day catalog: the tables are drawn from rows   *)
(* the handlers write, and a scorer ranks the itineraries.                  *)

\* crew_members as add_member leaves it after the forms, posted in order
MembersOf(forms) ==
    List([i \in 1..Len(forms) |->
            [ id |-> i, crew_id |-> 1, age |-> forms[i].age,
              skill_level |-> forms[i].skill_level ]])

MemberTables == {MembersOf(f) : f \in BoundedSeq(MemberForms, MaxMembers)}

\* program_scores as save_scores leaves it after one posted form
RatingsOf(form) ==
    List([i \in 1..Len(form) |->
            [ crew_id |-> 1, crew_member_id |-> form[i].crew_member_id,
              program_id |-> form[i].program_id, score |-> form[i].score ]])

\* the tables of the forms of at most MaxForm score_<member>_<program>
\* fields, each key at most once: member 1 rates any of the seven programs
\* 10, member 2 rates Baldy Mountain or Fishing 5
RatingTables ==
    { RatingsOf(f) :
        f \in { g \in BoundedSeq({ [crew_member_id |-> 1, program_id |-> p,
                                      score |-> 10] : p \in 1..Len(programs) }
                                  \cup { [crew_member_id |-> 2, program_id |-> p,
                                          score |-> 5] : p \in {1, 2} },
                                  MaxForm) :
                  \A i, j \in 1..Len(g) : i # j => g[i] # g[j] } }

\* rows save_preferences writes for four posted forms
PreferenceInputs ==
    { UncheckedPreferences,
      [ UncheckedPreferences EXCEPT
        !.area_important = 1, !.area_rank_south = Some(1),
        !.area_rank_central = Some(2), !.area_rank_valle_vidal = Some(5),
        !.max_altitude_important = 1,
        !.difficulty_challenging = 1, !.difficulty_rugged = 1,
        !.difficulty_strenuous = 1,
        !.climb_baldy = 1, !.climb_others = 1, !.hike_out_preference = 1,
        !.adult_program_weight_enabled = 1, !.adult_program_weight_percent = Some(50),
        !.max_dry_camps = Some(2), !.showers_required = 1, !.layovers_required = 1,
        !.prefer_low_starting_food = 1, !.prefer_shorter_resupply = 1,
        !.trek_type = "9-day" ],
      [ UncheckedPreferences EXCEPT
        !.area_important = 1, !.area_rank_south = Some(3),
        !.area_rank_central = Some(4), !.area_rank_north = Some(2),
        !.area_rank_valle_vidal = Some(0),
        !.total_elevation_gain_important = 1, !.altitude_change_important = 1,
        !.difficulty_challenging = 1, !.difficulty_rugged = 1,
        !.difficulty_strenuous = 1, !.difficulty_super_strenuous = 1,
        !.climb_baldy = 1, !.climb_phillips = 1, !.climb_tooth = 1,
        !.climb_inspiration_point = 1, !.climb_trail_peak = 1, !.climb_others = 1,
        !.max_dry_camps = Some(0), !.showers_required = 1,
        !.prefer_shorter_resupply = 1, !.trek_type = "9-day" ],
      [ UncheckedPreferences EXCEPT
        !.area_rank_south = Some(1), !.area_rank_north = Some(1),
        !.max_altitude_important = 1, !.total_elevation_gain_important = 1,
        !.altitude_change_important = 1,
        !.difficulty_super_strenuous = 1, !.hike_in_preference = 1,
        !.climb_phillips = 1, !.climb_tooth = 1, !.climb_trail_peak = 1,
        !.max_dry_camps = Some(8), !.layovers_required = 1,
        !.prefer_low_starting_food = 1, !.trek_type = "9-day" ] }

\* scoring_factors with programFactor and difficultDelta overridden
FactorOverrides ==
    << [factor_code |-> "programFactor", multiplier |-> Num(2), is_active |-> 1],
       [factor_code |-> "difficultDelta", multiplier |-> Frac(1, 2), is_active |-> 1],
       [factor_code |-> "mileageFactor", multiplier |-> Num(10), is_active |-> 0] >>

\* every rating table under a member of 16 and a member of 30; and every
\* member table and three factor tables (the last one turns mileageFactor
\* off) under no rating and under the ratings Baldy Mountain 10 by member 1,
\* Fishing 5 by member 2
InitScore ==
    /\ \/ /\ crew_members = MembersOf(<< [age |-> Some(16), skill_level |-> Some(3)],
                                         [age |-> Some(30), skill_level |-> Some(9)] >>)
          /\ program_scores \in RatingTables
          /\ scoring_factors = FactorTable
       \/ /\ crew_members \in MemberTables
          /\ program_scores \in
                {<<>>, RatingsOf(<< [crew_member_id |-> 1, program_id |-> 1, score |-> 10],
                                   [crew_member_id |-> 2, program_id |-> 2, score |-> 5] >>)}
          /\ scoring_factors \in
                {FactorTable, FactorOverrides,
                 << [factor_code |-> "mileageFactor", multiplier |-> Zero,
                     is_active |-> 1] >>}
    /\ crew_preferences \in {<<>>} \cup {<<row>> : row \in PreferenceInputs}
    /\ scorer = <<>>
    /\ ret = <<>>
    /\ itineraries = Catalog
    /\ runs = <<>>
    /\ InitAggIdle

NextScore ==
    \/ NewScorer(1, "9-day")
    \/ \E method \in {"Total", "Average"} : CallCalculateItineraryScores(method)

SpecScore == InitScore /\ [][NextScore]_vars

----------------------------------------------------------------------------
(* The methods of a scorer called directly, in any order, while the rows   *)
(* of scoring_factors change: ret holds the last direct call made, or the  *)
(* followed get_program_scores or calculate_itinerary_scores call.         *)

\* crew_members with skill_level as stored: NULL, or the integer posted
SkillTables ==
    { MembersOf(f) :
        f \in BoundedSeq({ [age |-> Some(16), skill_level |-> k] :
                             k \in {Null, Some(0), Some(1), Some(4), Some(10), Some(12)} },
                         MaxMembers) }

InitSkill ==
    /\ crew_members \in SkillTables
    /\ program_scores = <<>>
    /\ crew_preferences = <<>>
    /\ scoring_factors = FactorTable
    /\ scorer = <<>>
    /\ ret = <<>>
    /\ itineraries = Catalog
    /\ runs = <<>>
    /\ InitAggIdle

\* loaded tells whether _skill_difficulty_factors was set when the call began
DirectRecord(op, s, args, out) ==
    [ op |-> op, crew_id |-> s.crew_id, trek_type |-> s.trek_type,
      method |-> "", args |-> args, out |-> out, loaded |-> s.skill_table ]

CallGetScoreFactor(factor_code) ==
    /\ scorer # <<>>
    /\ ret' = <<DirectRecord("get_score_factor", scorer[1], <<factor_code>>,
                             Return(get_score_factor(scorer[1], DB, factor_code)))>>
    /\ scorer' = <<after_get_score_factor(scorer[1], DB)>>
    /\ UNCHANGED <<dbvars, aggvars, itineraries, runs>>

CallGetCrewSkillLevel ==
    /\ scorer # <<>>
    /\ ret' = <<DirectRecord("get_crew_skill_level", scorer[1], <<>>,
                             Return(get_crew_skill_level(scorer[1], DB)))>>
    /\ UNCHANGED <<dbvars, scorer, aggvars, itineraries, runs>>

CallSetItineraryDifficultyFactor(itinerary_difficulty, crew_skill_level) ==
    /\ scorer # <<>>
    /\ ret' = <<DirectRecord("set_itinerary_difficulty_factor", scorer[1],
                             <<itinerary_difficulty, crew_skill_level>>,
                             set_itinerary_difficulty_factor(
                                 scorer[1], DB, itinerary_difficulty,
                                 crew_skill_level))>>
    /\ UNCHANGED <<dbvars, scorer, aggvars, itineraries, runs>>

\* _calculate_difficulty_score called on the scorer for a catalog row.  The
\* instance stays as it is: get_score_factor is reached only once the table
\* lookup has succeeded, that is on an instance that is loaded already
CallCalculateDifficultyScore(itinerary) ==
    /\ scorer # <<>>
    /\ ret' = <<DirectRecord("calculate_difficulty_score", scorer[1], <<itinerary.id>>,
                             calculate_difficulty_score(
                                 scorer[1], DB, itinerary,
                                 get_crew_preferences(scorer[1], DB)))>>
    /\ UNCHANGED <<dbvars, scorer, aggvars, itineraries, runs>>

\* the rows of scoring_factors replaced between two calls; no route of the
\* application writes the table
write_scoring_factors(rows) ==
    /\ scoring_factors' = rows
    /\ scoring_factors' # scoring_factors
    /\ ret' = <<>>
    /\ UNCHANGED <<crew_members, program_scores, crew_preferences, scorer, aggvars, itineraries, runs>>

NextSkill ==
    \/ NewScorer(1, "12-day")
    \/ \E rows \in {FactorTable, FactorOverrides} : write_scoring_factors(rows)
    \/ CallGetProgramScores("Total")
    \/ CallCalculateItineraryScores("Total")
    \/ \E k \in 1..Len(itineraries) : CallCalculateDifficultyScore(itineraries[k])
    \/ \E factor_code \in {"programFactor", "mileageFactor", "unknownFactor"} :
          CallGetScoreFactor(factor_code)
    \/ CallGetCrewSkillLevel
    \/ \E itinerary_difficulty \in {"C", "R", "S", "SS", "X"},
          crew_skill_level \in {<<>>} \cup {<<k>> : k \in 0..11} :
          CallSetItineraryDifficultyFactor(itinerary_difficulty, crew_skill_level)

SpecSkill == InitSkill /\ [][NextSkill]_vars

----------------------------------------------------------------------------
(* Properties of the aggregator, checked under SpecAgg                     *)

KnownMethods == {"Total", "Average", "Median", "Mode"}

AggCalled == agg_ret # NotCalled

\* the sum of L[1..k], by index
RECURSIVE RefSum(_, _)
RefSum(L, k) == IF k = 0 THEN Zero ELSE RAdd(RefSum(L, k - 1), L[k])

\* number of positions of L that hold v
Occurrences(L, v) == Cardinality({i \in 1..Len(L) : L[i] = v})

\* L arranged in non-decreasing order: the one sequence with the same
\* occurrences in which no element is greater than its successor
Ascending(L) ==
    CHOOSE t \in [1..Len(L) -> {L[i] : i \in 1..Len(L)}] :
        /\ \A i \in 1..Len(L) : Occurrences(t, L[i]) = Occurrences(L, L[i])
        /\ \A i \in 1..(Len(L) - 1) : RLe(t[i], t[i + 1])

\* the standard median of L
RefMedian(L) ==
    LET t == Ascending(L)
        n == Len(L)
    IN  IF n % 2 = 1 THEN t[(n + 1) \div 2]
        ELSE RDivInt(RAdd(t[n \div 2], t[n \div 2 + 1]), 2)

\* position of the first occurrence of v in L
FirstIndex(L, v) == CHOOSE i \in 1..Len(L) : L[i] = v /\ \A j \in 1..(i - 1) : L[j] # v

\* C6: for a non-empty list L, Total returns sum(L), Average returns
\* sum(L)/len(L), and Median returns the middle element of L in sorted
\* order (odd length) or the mean of the two middle elements (even length),
\* whatever the order of L
C6_TotalAverageMedian ==
    AggCalled /\ agg_scores # <<>> =>
        /\ agg_method = "Total" =>
               agg_ret = Return(RefSum(agg_scores, Len(agg_scores)))
        /\ agg_method = "Average" =>
               agg_ret = Return(RDivInt(RefSum(agg_scores, Len(agg_scores)),
                                        Len(agg_scores)))
        /\ agg_method = "Median" => agg_ret = Return(RefMedian(agg_scores))

\* an even-length list that is not in sorted order has had its median taken
C6_Witness ==
    /\ AggCalled /\ agg_method = "Median" /\ Len(agg_scores) = 2
    /\ RLt(agg_scores[2], agg_scores[1])
    /\ agg_ret = Return(RDivInt(RAdd(agg_scores[1], agg_scores[2]), 2))

\* C7: for a non-empty list L, Mode returns a value of maximum frequency in
\* L, and among several such values the one that occurs first in L
C7_ModeFirstMostFrequent ==
    AggCalled /\ agg_method = "Mode" /\ agg_scores # <<>> =>
        /\ agg_ret.exc = ""
        /\ \E i \in 1..Len(agg_scores) : agg_scores[i] = agg_ret.val
        /\ \A i \in 1..Len(agg_scores) :
              \/ Occurrences(agg_scores, agg_scores[i])
                   < Occurrences(agg_scores, agg_ret.val)
              \/ /\ Occurrences(agg_scores, agg_scores[i])
                      = Occurrences(agg_scores, agg_ret.val)
                 /\ FirstIndex(agg_scores, agg_ret.val)
                      <= FirstIndex(agg_scores, agg_scores[i])

\* Mode has been taken of a list in which two values share the maximum
\* frequency and the one occurring first is not the least
C7_Witness ==
    /\ AggCalled /\ agg_method = "Mode" /\ Len(agg_scores) = 3
    /\ agg_scores[1] # agg_scores[2] /\ agg_scores[3] # agg_scores[1]
    /\ agg_scores[3] # agg_scores[2]
    /\ RLt(agg_scores[2], agg_scores[1])
    /\ agg_ret = Return(agg_scores[1])

\* C9, as stated: aggregating an empty list returns 0 for every method
C9_EmptyListReturnsZero ==
    AggCalled /\ agg_scores = <<>> => agg_ret = Return(Zero)


----------------------------------------------------------------------------
(* Properties of the engine, checked under Spec on the followed call       *)

CalcFollowed == ret # <<>> /\ ret[1].op = "calculate_itinerary_scores"
GpsFollowed  == ret # <<>> /\ ret[1].op = "get_program_scores"
CalcReturned == CalcFollowed /\ ret[1].out.exc = ""

\* the catalog rows of a trek type
CatalogOf(trek_type) ==
    {itineraries[k] : k \in {j \in 1..Len(itineraries) :
                               itineraries[j].trek_type = trek_type}}

ComponentNames ==
    { "program_score", "difficulty_score", "area_score", "altitude_score",
      "distance_score", "hike_score", "camp_score", "peak_score" }

\* C1: the returned list is ordered by total_score non-increasing, holds
\* each itinerary of the requested trek type exactly once and no other, and
\* its ranking values are 1..N in list order
C1_SortedCompleteRanked ==
    CalcReturned =>
        LET r == ret[1].out.val
            rows == CatalogOf(ret[1].trek_type)
        IN  /\ Len(r) = Cardinality(rows)
            /\ \A i \in 1..Len(r) : r[i].ranking = i /\ r[i].itinerary \in rows
            /\ \A row \in rows : Cardinality({i \in 1..Len(r) : r[i].itinerary = row}) = 1
            /\ \A i \in 1..(Len(r) - 1) : RLe(r[i + 1].total_score, r[i].total_score)

\* a ranking of three itineraries whose best one comes last in the catalog
C1_Witness ==
    /\ CalcReturned /\ Len(ret[1].out.val) = 3
    /\ RLt(ret[1].out.val[2].total_score, ret[1].out.val[1].total_score)
    /\ ret[1].out.val[2].itinerary.itinerary_code
         < ret[1].out.val[1].itinerary.itinerary_code

\* C2: results with equal total_score are ranked in catalog order: of two
\* such results the one with the lower ranking is the one whose
\* itinerary_code comes first
C2_TiesInCatalogOrder ==
    CalcReturned =>
        LET r == ret[1].out.val
        IN  \A i, j \in 1..Len(r) :
                i # j /\ r[i].total_score = r[j].total_score =>
                    (r[i].ranking < r[j].ranking
                       <=> r[i].itinerary.itinerary_code < r[j].itinerary.itinerary_code)

\* two itineraries tie behind a better one that the catalog lists after them
C2_Witness ==
    /\ CalcReturned /\ Len(ret[1].out.val) = 3
    /\ ret[1].out.val[2].total_score = ret[1].out.val[3].total_score
    /\ RLt(ret[1].out.val[2].total_score, ret[1].out.val[1].total_score)
    /\ ret[1].out.val[3].itinerary.itinerary_code
         < ret[1].out.val[1].itinerary.itinerary_code

\* C3: every result has exactly the eight components, and its total_score
\* is their sum
C3_TotalIsSumOfEight ==
    CalcReturned =>
        \A i \in 1..Len(ret[1].out.val) :
            LET c == ret[1].out.val[i].components
            IN  /\ DOMAIN c = ComponentNames
                /\ ret[1].out.val[i].total_score =
                     RAdd(c.peak_score, RAdd(c.camp_score, RAdd(c.hike_score,
                       RAdd(c.distance_score, RAdd(c.altitude_score,
                         RAdd(c.area_score,
                              RAdd(c.difficulty_score, c.program_score)))))))

\* a result all of whose eight components are non-zero
C3_Witness ==
    /\ CalcReturned
    /\ \E i \in 1..Len(ret[1].out.val) :
          \A k \in ComponentNames : ret[1].out.val[i].components[k] # Zero

\* C4, as stated: with no itinerary of the requested trek type, the call
\* returns the empty list whatever the crew's state and the method
C4_EmptyCatalogReturnsEmpty ==
    CalcFollowed /\ CatalogOf(ret[1].trek_type) = {} => ret[1].out = Return(<<>>)

\* C5: a call changes no row of a table, and a repetition of a call with no
\* write in between, on the same instance or on a new one with the same
\* arguments, returns what the call returned before
C5_ReadOnlyIdempotent ==
    [][ /\ ret' # <<>> => UNCHANGED dbvars
        /\ ret # <<>> /\ ret' # <<>> =>
              /\ ret'[1].op = ret[1].op /\ ret'[1].method = ret[1].method
              /\ ret'[1].crew_id = ret[1].crew_id
              /\ ret'[1].trek_type = ret[1].trek_type
              /\ ret'[1].out = ret[1].out ]_vars

\* a ranking of three itineraries has been returned a second time
C5_Witness ==
    /\ CalcReturned /\ ret[1].calls = 2 /\ Len(ret[1].out.val) = 3
    /\ ret[1].out.val[1].components.program_score # Zero

\* C8: with a method name that is none of the four, the aggregator returns
\* sum(L), and get_program_scores and calculate_itinerary_scores return what
\* they return for "Total"
C8_UnknownMethodIsTotal ==
    ret # <<>> /\ ret[1].method \notin KnownMethods =>
        /\ \A L \in BoundedSeq(AggValues, MaxLen) :
              calculate_aggregate(L, ret[1].method) = Return(RefSum(L, Len(L)))
        /\ ret[1].out =
             IF ret[1].op = "get_program_scores"
             THEN get_program_scores(PhilmontScorer(ret[1].crew_id, ret[1].trek_type),
                                     DB, "Total")
             ELSE calculate_itinerary_scores(
                      PhilmontScorer(ret[1].crew_id, ret[1].trek_type), DB, "Total")

\* a program rated 5 and 10 has been aggregated to 15 under an unknown name
C8_Witness ==
    /\ GpsFollowed /\ ret[1].method \notin KnownMethods /\ ret[1].out.exc = ""
    /\ \E p \in DOMAIN ret[1].out.val : ret[1].out.val[p] = Num(15)

\* the tables with every missing age read as 0
AgesDefaulted ==
    [ DB EXCEPT !.crew_members =
        [i \in 1..Len(crew_members) |->
            IF crew_members[i].age = Null
            THEN [crew_members[i] EXCEPT !.age = Some(0)]
            ELSE crew_members[i]] ]

\* C10, as stated: get_program_scores does not fail on a rating of a member
\* whose age is missing, and aggregates that rating unweighted
C10_MissingAgeIsNonAdult ==
    GpsFollowed =>
        ret[1].out =
            get_program_scores(PhilmontScorer(ret[1].crew_id, ret[1].trek_type),
                               AgesDefaulted, ret[1].method)

----------------------------------------------------------------------------
(* Properties of get_program_scores, checked under Spec                    *)

\* whether a rating row counts for the crew: its member and program exist
RefRated(db, crew_id, ps) ==
    /\ ps.crew_id = crew_id
    /\ \E i \in 1..Len(db.crew_members) : db.crew_members[i].id = ps.crew_member_id
    /\ \E i \in 1..Len(programs) : programs[i].id = ps.program_id

\* the crew's rating rows of program p by members 1..m, in member order
RECURSIVE RefRatingRows(_, _, _, _)
RefRatingRows(db, crew_id, p, m) ==
    IF m = 0 THEN <<>>
    ELSE RefRatingRows(db, crew_id, p, m - 1)
         \o SelectSeq(db.program_scores,
                      LAMBDA ps : /\ RefRated(db, crew_id, ps)
                                  /\ ps.program_id = p /\ ps.crew_member_id = m)

\* a rating as the claim weights it: times percent/100 exactly when
\* weighting is enabled and the member is older than 20
RefWeighted(db, crew_id, ps) ==
    LET prefs == SelectSeq(db.crew_preferences, LAMBDA r : r.crew_id = crew_id)
        age   == (CHOOSE i \in 1..Len(db.crew_members) :
                     db.crew_members[i].id = ps.crew_member_id)
        adult == /\ db.crew_members[age].age # Null
                 /\ db.crew_members[age].age[1] > 20
    IN  IF prefs # <<>> /\ prefs[1].adult_program_weight_enabled # 0 /\ adult
        THEN RMul(Num(ps.score), Frac(prefs[1].adult_program_weight_percent[1], 100))
        ELSE Num(ps.score)

\* the map of the claim: a key for each program the crew has rated
RefProgramScores(db, crew_id, method) ==
    LET rated == { db.program_scores[i].program_id :
                     i \in { j \in 1..Len(db.program_scores) :
                               RefRated(db, crew_id, db.program_scores[j]) } }
        rows(p) == RefRatingRows(db, crew_id, p, MaxMembers)
    IN  [ p \in rated |->
            calculate_aggregate([k \in 1..Len(rows(p)) |->
                                    RefWeighted(db, crew_id, rows(p)[k])],
                                method).val ]

\* C11, as stated: get_program_scores returns the map that has a key for
\* exactly the programs the crew has rated and, for each, the aggregate of
\* its ratings in member order, a rating being multiplied by
\* adult_program_weight_percent/100 exactly when weighting is enabled and the
\* member's age is greater than 20
C11_ProgramScoresMap ==
    GpsFollowed =>
        /\ ret[1].out.exc = ""
        /\ ret[1].out.val = RefProgramScores(DB, ret[1].crew_id, ret[1].method)

----------------------------------------------------------------------------
(* Properties of the sub-scorers, checked under SpecScore on the results   *)
(* of the followed calculate_itinerary_scores call                         *)

\* a factor as configured: the multiplier of the last active row of the
\* code, else the default
RefFactor(db, code, default) ==
    LET rows == SelectSeq(db.scoring_factors,
                          LAMBDA r : r.factor_code = code /\ r.is_active = 1)
    IN  IF rows = <<>> THEN default ELSE rows[Len(rows)].multiplier

\* the sum of f over a finite set of integers
RECURSIVE RefSetSum(_, _)
RefSetSum(S, f) ==
    IF S = {} THEN Zero
    ELSE LET x == CHOOSE y \in S : \A z \in S : y <= z
         IN  RAdd(IF x \in DOMAIN f THEN f[x] ELSE Zero, RefSetSum(S \ {x}, f))

\* the programs marked available for an itinerary under a trek type
RefAvailable(itinerary_id, trek_type) ==
    { itinerary_programs[i].program_id :
        i \in { j \in 1..Len(itinerary_programs) :
                  /\ itinerary_programs[j].itinerary_id = itinerary_id
                  /\ itinerary_programs[j].trek_type = trek_type
                  /\ itinerary_programs[j].is_available = 1 } }

\* programScores of the followed call
RefProgramScoresOfCall ==
    get_program_scores(PhilmontScorer(ret[1].crew_id, ret[1].trek_type), DB,
                       ret[1].method).val

\* C12: the program sub-score of every ranked itinerary is programFactor
\* (1.5 unless overridden) times the sum of programScores[p] over exactly the
\* programs marked available for it under the scorer's trek type
C12_ProgramSubScore ==
    CalcReturned =>
        \A i \in 1..Len(ret[1].out.val) :
            ret[1].out.val[i].components.program_score =
                RMul(RefFactor(DB, "programFactor", Frac(3, 2)),
                     RefSetSum(RefAvailable(ret[1].out.val[i].itinerary.id,
                                            ret[1].trek_type),
                               RefProgramScoresOfCall))

\* itinerary 4 scores 2 * 10 for Baldy Mountain under the overridden factor,
\* while Fishing, rated and not available for it, adds nothing
C12_Witness ==
    /\ CalcReturned
    /\ 2 \in DOMAIN RefProgramScoresOfCall
    /\ \E i \in 1..Len(ret[1].out.val) :
          /\ ret[1].out.val[i].itinerary.id = 4
          /\ ret[1].out.val[i].components.program_score = Num(20)

\* the crew's accept flag of a difficulty class
RefAcceptFlag(class) ==
    [ C |-> "difficulty_challenging", R |-> "difficulty_rugged",
      S |-> "difficulty_strenuous", SS |-> "difficulty_super_strenuous" ][class]

\* C13: the difficulty sub-score of every ranked itinerary is 0 when the
\* crew's record holds a false accept flag for the itinerary's class, and
\* otherwise (flag set, or no record) the table entry for the crew's skill
\* level and the class times difficultDelta (1.0 unless overridden)
C13_DifficultySubScore ==
    CalcReturned =>
        \A i \in 1..Len(ret[1].out.val) :
            LET class == ret[1].out.val[i].itinerary.difficulty
                skill == get_crew_skill_level(PhilmontScorer(ret[1].crew_id,
                                                             ret[1].trek_type), DB)
            IN  ret[1].out.val[i].components.difficulty_score =
                    IF /\ crew_preferences # <<>>
                       /\ crew_preferences[1][RefAcceptFlag(class)] = 0
                    THEN Zero
                    ELSE RMul(Num(skill_difficulty_factors[skill][class]),
                              RefFactor(DB, "difficultDelta", Num(1)))

\* a crew of skill 5 scores 3000 on the class C itinerary it accepts and 0
\* on the class SS itinerary it does not
C13_Witness ==
    /\ CalcReturned /\ crew_members = <<>> /\ crew_preferences # <<>>
    /\ \E i, j \in 1..Len(ret[1].out.val) :
          /\ ret[1].out.val[i].itinerary.difficulty = "C"
          /\ ret[1].out.val[i].components.difficulty_score = Num(3000)
          /\ ret[1].out.val[j].itinerary.difficulty = "SS"
          /\ ret[1].out.val[j].components.difficulty_score = Zero

\* the six peaks of the claim: itinerary column, preference flag, Landmarks
\* program, multiplier
RefPeaks ==
    { <<"baldy_mountain", "climb_baldy", "Landmarks: Baldy Mountain", Num(2)>>,
      <<"mount_phillips", "climb_phillips", "Landmarks: Mount Phillips", Frac(3, 2)>>,
      <<"tooth_of_time", "climb_tooth", "Landmarks: Tooth of Time", Frac(3, 2)>>,
      <<"inspiration_point", "climb_inspiration_point",
        "Landmarks: Inspiration Point", Num(1)>>,
      <<"trail_peak", "climb_trail_peak", "Landmarks: Trail Peak", Frac(3, 2)>>,
      <<"mountaineering", "climb_others", "Landmarks: Mountaineering", Frac(6, 5)>> }

\* the crew's aggregate of the raw ratings of the program of that name: 0
\* when it has none
RefPeakRating(name, crew_id, method) ==
    LET rows == SelectSeq(program_scores,
                          LAMBDA ps : /\ ps.crew_id = crew_id
                                      /\ \E i \in 1..Len(programs) :
                                            /\ programs[i].name = name
                                            /\ programs[i].id = ps.program_id)
    IN  IF rows = <<>> THEN Zero
        ELSE calculate_aggregate([k \in 1..Len(rows) |-> Num(rows[k].score)],
                                 method).val

\* what the claim has one peak contribute
RefPeakPart(peak, itinerary, crew_id, method) ==
    IF itinerary[peak[1]] = 0 THEN Zero
    ELSE IF crew_preferences # <<>> /\ crew_preferences[1][peak[2]] # 0
         THEN RMul(RMul(RefPeakRating(peak[3], crew_id, method), peak[4]),
                   RefFactor(DB, "programFactor", Frac(3, 2)))
         ELSE RMul(RefPeakRating(peak[3], crew_id, method),
                   RefFactor(DB, "programFactor", Frac(3, 2)))

RECURSIVE RefPeakSum(_, _, _, _)
RefPeakSum(P, itinerary, crew_id, method) ==
    IF P = {} THEN Zero
    ELSE LET peak == CHOOSE x \in P : TRUE
         IN  RAdd(RefPeakPart(peak, itinerary, crew_id, method),
                  RefPeakSum(P \ {peak}, itinerary, crew_id, method))

\* C17: the peak sub-score of every ranked itinerary is the sum over the six
\* peaks of 0 for a peak the itinerary lacks, rating * multiplier *
\* programFactor for a peak it has and the crew asked for, and rating *
\* programFactor for a peak it has and the crew did not ask for
C17_PeakSubScore ==
    CalcReturned =>
        \A i \in 1..Len(ret[1].out.val) :
            ret[1].out.val[i].components.peak_score =
                RefPeakSum(RefPeaks, ret[1].out.val[i].itinerary, ret[1].crew_id,
                           ret[1].method)

\* the crew's only rating is a 10 for Baldy Mountain, which it asked for:
\* the itinerary whose only peak is Baldy scores 10 * 2.0 * 1.5 = 30
C17_Witness ==
    /\ CalcReturned /\ scoring_factors = FactorTable
    /\ Len(program_scores) = 1 /\ program_scores[1].score = 10
    /\ crew_preferences # <<>> /\ crew_preferences[1].climb_baldy = 1
    /\ \E i \in 1..Len(ret[1].out.val) :
          /\ ret[1].out.val[i].itinerary.id = 6
          /\ ret[1].out.val[i].components.peak_score = Num(30)

\* the preference record of the followed call's crew: <<>> or <<row>>
RefPrefs == SelectSeq(crew_preferences, LAMBDA r : r.crew_id = ret[1].crew_id)

\* a preference of the crew's record, or default when there is no record
RefPref(key, default) == IF RefPrefs = <<>> THEN default ELSE RefPrefs[1][key]

\* a nullable count of an itinerary, NULL read as 0
RefCount(itinerary, column) ==
    IF itinerary[column] = Null THEN 0 ELSE itinerary[column][1]

\* the dry-camp contribution of the claim
RefDryCamps(itinerary) ==
    LET count == RefCount(itinerary, "dry_camps")
        limit == RefPref("max_dry_camps", Null)
    IN  IF limit # Null /\ count > limit[1] THEN (0 - 500) * (count - limit[1])
        ELSE CASE count = 0 -> 300 [] count = 1 -> 250 [] count = 2 -> 225
               [] count = 3 -> 200 [] count = 4 -> 150 [] count = 5 -> 100
               [] count = 6 -> 50  [] OTHER -> 20

\* C18: in the camp sub-score of every ranked itinerary the dry-camp
\* contribution is -500 per camp over the crew's max-dry-camps threshold,
\* with no table value added, when the count exceeds the threshold, and the
\* table value when it does not or no threshold is set
C18_DryCampContribution ==
    CalcReturned =>
        \A i \in 1..Len(ret[1].out.val) :
            LET it == ret[1].out.val[i].itinerary
            IN  ret[1].out.val[i].components.camp_score =
                    Num(RefDryCamps(it)
                        + trail_camp_part(it) + total_camps_part(it)
                        + showers_part(it, RefPrefs) + layovers_part(it, RefPrefs)
                        + low_starting_food_part(it, RefPrefs)
                        + shorter_resupply_part(it, RefPrefs))

\* three dry camps against a threshold of two: -500 instead of 200, next to
\* an itinerary within the threshold that gets the table value 300
C18_Witness ==
    /\ CalcReturned /\ RefPref("max_dry_camps", Null) = Some(2)
    /\ \E i, j \in 1..Len(ret[1].out.val) :
          /\ ret[1].out.val[i].itinerary.dry_camps = Some(3)
          /\ RefDryCamps(ret[1].out.val[i].itinerary) = 0 - 500
          /\ ret[1].out.val[j].itinerary.dry_camps = Some(0)
          /\ RefDryCamps(ret[1].out.val[j].itinerary) = 300

\* whether some camp on the itinerary has showers
RefHasShowers(itinerary) ==
    \E i \in 1..Len(itinerary_camps), j \in 1..Len(camps) :
        /\ itinerary_camps[i].itinerary_id = itinerary.id
        /\ camps[j].id = itinerary_camps[i].camp_id
        /\ camps[j].has_showers # 0

\* whether some day of the itinerary is flagged as a layover
RefHasLayover(itinerary) ==
    \E i \in 1..Len(itinerary_camps) :
        /\ itinerary_camps[i].itinerary_id = itinerary.id
        /\ itinerary_camps[i].is_layover = 1

RefShowers(itinerary) ==
    IF RefPref("showers_required", 0) = 0 THEN 0
    ELSE IF RefHasShowers(itinerary) THEN 1000 ELSE 0 - 1500

RefLayovers(itinerary) ==
    IF RefPref("layovers_required", 0) = 0 THEN 0
    ELSE IF RefHasLayover(itinerary) THEN 800 ELSE 0 - 1200

\* C19: in the camp sub-score of every ranked itinerary the showers part and
\* the layovers part are 0 when not required; when required, +1000 with a
\* camp that has showers and -1500 without, +800 with a layover day and
\* -1200 without
C19_ShowersAndLayovers ==
    CalcReturned =>
        \A i \in 1..Len(ret[1].out.val) :
            LET it == ret[1].out.val[i].itinerary
            IN  ret[1].out.val[i].components.camp_score =
                    Num(dry_camp_part(it, RefPrefs)
                        + trail_camp_part(it) + total_camps_part(it)
                        + RefShowers(it) + RefLayovers(it)
                        + low_starting_food_part(it, RefPrefs)
                        + shorter_resupply_part(it, RefPrefs))

\* showers and layovers are required: one itinerary has both, one has camps
\* with neither, and one has no camp at all
C19_Witness ==
    /\ CalcReturned
    /\ RefPref("showers_required", 0) = 1 /\ RefPref("layovers_required", 0) = 1
    /\ \E i, j, k \in 1..Len(ret[1].out.val) :
          /\ RefShowers(ret[1].out.val[i].itinerary) = 1000
          /\ RefLayovers(ret[1].out.val[i].itinerary) = 800
          /\ ret[1].out.val[j].itinerary.id = 6
          /\ RefShowers(ret[1].out.val[j].itinerary) = 0 - 1500
          /\ RefLayovers(ret[1].out.val[j].itinerary) = 0 - 1200
          /\ ret[1].out.val[k].itinerary.id = 7
          /\ RefShowers(ret[1].out.val[k].itinerary) = 0 - 1500

RefLowStartingFood(itinerary) ==
    LET d == RefCount(itinerary, "days_food_from_base")
    IN  IF RefPref("prefer_low_starting_food", 0) # 0 /\ d > 0
        THEN 20 + (d - 1) * 10 ELSE 0

RefShorterResupply(itinerary) ==
    LET m == RefCount(itinerary, "max_days_food")
    IN  IF RefPref("prefer_shorter_resupply", 0) # 0 /\ m > 0
        THEN (IF 100 - (m - 1) * 10 > 0 THEN 100 - (m - 1) * 10 ELSE 0)
        ELSE 0

----------------------------------------------------------------------------
(* Properties of the area, altitude, distance and hike sub-scorers and of  *)
(* the defaults without a preference record, checked under SpecScore       *)

\* the value of a rank: 0 for a missing rank and for any rank but 1..4
RefRankValue(rank) ==
    IF rank = Null THEN 0
    ELSE CASE rank[1] = 1 -> 1000 [] rank[1] = 2 -> 600
           [] rank[1] = 3 -> 200  [] rank[1] = 4 -> 150 [] OTHER -> 0

\* what a region adds: the value of its rank when the itinerary covers it
RefRegion(itinerary, covers, rank_key) ==
    IF itinerary[covers] = 0 THEN 0 ELSE RefRankValue(RefPref(rank_key, Null))

RefArea(itinerary) ==
    IF RefPref("area_important", 0) = 0 THEN 0
    ELSE RefRegion(itinerary, "covers_south", "area_rank_south")
         + RefRegion(itinerary, "covers_central", "area_rank_central")
         + RefRegion(itinerary, "covers_north", "area_rank_north")
         + RefRegion(itinerary, "covers_valle_vidal", "area_rank_valle_vidal")

\* C21: the area sub-score of every ranked itinerary is 0 when area is not
\* marked important or there is no preference record, and otherwise the sum
\* over the regions the itinerary covers of the value of the crew's rank of
\* the region (1 -> 1000, 2 -> 600, 3 -> 200, 4 -> 150, else 0)
C21_AreaSubScore ==
    CalcReturned =>
        \A i \in 1..Len(ret[1].out.val) :
            ret[1].out.val[i].components.area_score =
                Num(RefArea(ret[1].out.val[i].itinerary))

\* an itinerary covering all four regions collects 1000 + 600 for the two
\* ranked 1 and 2, next to one that covers only a region ranked 5 and an
\* unranked region and gets 0
C21_Witness ==
    /\ CalcReturned /\ RefPref("area_important", 0) = 1
    /\ RefPref("area_rank_valle_vidal", Null) = Some(5)
    /\ RefPref("area_rank_north", Null) = Null
    /\ \E i, j \in 1..Len(ret[1].out.val) :
          /\ ret[1].out.val[i].itinerary.id = 6
          /\ ret[1].out.val[i].components.area_score = Num(1600)
          /\ ret[1].out.val[j].itinerary.id = 4
          /\ ret[1].out.val[j].components.area_score = Zero

\* the points of the highest threshold of the table that is not above the
\* value, and low when the value is below every threshold
RefThresholdPoints(table, value, low) ==
    LET reached == {k \in 1..Len(table) : table[k][1] <= value}
    IN  IF reached = {} THEN low
        ELSE table[CHOOSE k \in reached :
                      \A j \in reached : table[j][1] <= table[k][1]][2]

\* one part of the altitude sub-score, gated by its own flag
RefGatedPart(itinerary, flag, column, table, low) ==
    IF \/ RefPref(flag, 0) = 0
       \/ itinerary[column] = Null
       \/ itinerary[column][1] <= 0
    THEN 0
    ELSE RefThresholdPoints(table, itinerary[column][1], low)

\* C22: the altitude sub-score of every ranked itinerary is the sum of three
\* parts (max altitude, total elevation gain, average daily elevation
\* change), each 0 when its own flag is unset or its value is null or not
\* above 0, and else the points of the highest threshold not above the value
\* (20, 40 and 100 below every threshold), whatever the other flags are
C22_AltitudeSubScore ==
    CalcReturned =>
        \A i \in 1..Len(ret[1].out.val) :
            LET it == ret[1].out.val[i].itinerary
            IN  ret[1].out.val[i].components.altitude_score =
                    Num(RefGatedPart(it, "max_altitude_important", "max_altitude",
                                     altitude_scores, 20)
                        + RefGatedPart(it, "total_elevation_gain_important",
                                       "total_elevation_gain", elevation_gain_scores, 40)
                        + RefGatedPart(it, "altitude_change_important",
                                       "avg_daily_elevation_change",
                                       daily_change_scores, 100))

\* with the gain and daily change flags set and the max altitude flag unset,
\* the itinerary of 8000 ft, 4600 ft of gain and 200 ft a day scores 90 + 100
\* and the one of 9000 ft, 1000 ft and 650 ft scores 40 + 300
C22_Witness ==
    /\ CalcReturned
    /\ RefPref("max_altitude_important", 0) = 0
    /\ RefPref("total_elevation_gain_important", 0) = 1
    /\ RefPref("altitude_change_important", 0) = 1
    /\ \E i, j \in 1..Len(ret[1].out.val) :
          /\ ret[1].out.val[i].itinerary.id = 4
          /\ ret[1].out.val[i].components.altitude_score = Num(190)
          /\ ret[1].out.val[j].itinerary.id = 5
          /\ ret[1].out.val[j].components.altitude_score = Num(340)

\* the distance of an itinerary in miles, 50 when it is null
RefDistance(itinerary) ==
    IF itinerary.distance = Null THEN Num(50) ELSE itinerary.distance[1]

\* the distance sub-score of every ranked itinerary is d * mileageFactor
RefDistanceScores ==
    \A i \in 1..Len(ret[1].out.val) :
        ret[1].out.val[i].components.distance_score =
            RMul(RefDistance(ret[1].out.val[i].itinerary),
                 RefFactor(DB, "mileageFactor", Num(100)))

\* of two ranked itineraries with a recorded distance, the one with the
\* longer distance has the strictly higher distance sub-score
RefLongerScoresHigher ==
    \A i, j \in 1..Len(ret[1].out.val) :
        /\ ret[1].out.val[i].itinerary.distance # Null
        /\ ret[1].out.val[j].itinerary.distance # Null
        /\ RLt(ret[1].out.val[i].itinerary.distance[1],
               ret[1].out.val[j].itinerary.distance[1])
        => RLt(ret[1].out.val[i].components.distance_score,
               ret[1].out.val[j].components.distance_score)

\* C23, as stated: the distance sub-score is d * mileageFactor, d being the
\* itinerary's distance or 50 when it is null, and of two itineraries of one
\* run the one with the longer distance has the strictly higher sub-score
C23_DistanceStrictlyIncreasing ==
    CalcReturned => RefDistanceScores /\ RefLongerScoresHigher

\* C23, amended: the distance sub-score is d * mileageFactor, d being the
\* itinerary's distance or 50 when it is null, and when mileageFactor is
\* greater than 0 the itinerary of a run with the longer distance has the
\* strictly higher sub-score
C23_DistanceLinear ==
    CalcReturned =>
        /\ RefDistanceScores
        /\ RLt(Zero, RefFactor(DB, "mileageFactor", Num(100))) => RefLongerScoresHigher

\* under the default factor of 100 the itineraries of 36.5, 50 and 70 miles
\* score 3650, 5000 and 7000, and the one without a distance scores 5000
C23_Witness ==
    /\ CalcReturned /\ RefFactor(DB, "mileageFactor", Num(100)) = Num(100)
    /\ \E i, j, k, l \in 1..Len(ret[1].out.val) :
          /\ ret[1].out.val[i].itinerary.distance = Some(Frac(73, 2))
          /\ ret[1].out.val[i].components.distance_score = Num(3650)
          /\ ret[1].out.val[j].itinerary.distance = Some(Num(50))
          /\ ret[1].out.val[j].components.distance_score = Num(5000)
          /\ ret[1].out.val[k].itinerary.distance = Some(Num(70))
          /\ ret[1].out.val[k].components.distance_score = Num(7000)
          /\ ret[1].out.val[l].itinerary.distance = Null
          /\ ret[1].out.val[l].components.distance_score = Num(5000)

\* 500 for starting with a hike out, 500 for ending with a hike in
RefHikeBoth(itinerary) ==
    (IF itinerary.starts_at = "Hike Out" THEN 500 ELSE 0)
      + (IF itinerary.ends_at = "Hike In" THEN 500 ELSE 0)

\* C24: for a crew without a preference record calculate_itinerary_scores
\* raises no error, and for every itinerary the area and altitude sub-scores
\* are 0, the camp sub-score holds nothing for showers, layovers and food,
\* the difficulty class counts as accepted, both hike preferences count as
\* set, and total_score is not 0
C24_NoPreferenceRecord ==
    CalcFollowed /\ RefPrefs = <<>> =>
        /\ ret[1].out.exc = ""
        /\ \A i \in 1..Len(ret[1].out.val) :
              LET it == ret[1].out.val[i].itinerary
                  c  == ret[1].out.val[i].components
                  skill == get_crew_skill_level(PhilmontScorer(ret[1].crew_id,
                                                               ret[1].trek_type), DB)
              IN  /\ c.area_score = Zero /\ c.altitude_score = Zero
                  /\ c.camp_score = Num(RefDryCamps(it) + trail_camp_part(it)
                                        + total_camps_part(it))
                  /\ c.difficulty_score =
                        RMul(Num(skill_difficulty_factors[skill][it.difficulty]),
                             RefFactor(DB, "difficultDelta", Num(1)))
                  /\ c.hike_score = Num(RefHikeBoth(it))
                  /\ ret[1].out.val[i].total_score # Zero

\* a crew without a record is ranked: the itinerary that starts with a hike
\* out and ends with a hike in gets 1000, the one with neither gets 0, and
\* the class SS itinerary is scored as accepted
C24_Witness ==
    /\ CalcReturned /\ RefPrefs = <<>> /\ program_scores # <<>>
    /\ \E i, j \in 1..Len(ret[1].out.val) :
          /\ ret[1].out.val[i].itinerary.id = 4
          /\ ret[1].out.val[i].components.hike_score = Num(1000)
          /\ ret[1].out.val[j].itinerary.difficulty = "SS"
          /\ ret[1].out.val[j].components.hike_score = Zero
          /\ ret[1].out.val[j].components.difficulty_score # Zero

----------------------------------------------------------------------------
(* Properties of the skill level and the difficulty table, checked under   *)
(* SpecSkill on the last call                                               *)

DifficultyFactorCalled ==
    ret # <<>> /\ ret[1].op = "set_itinerary_difficulty_factor"

\* C14, as stated: set_itinerary_difficulty_factor(class, skill) returns the
\* table entry for skill in 1..10 and class in {C, R, S, SS}, and 2000 for
\* any other skill or class
C14_TableEntryOrDefault ==
    DifficultyFactorCalled /\ ret[1].args[2] # <<>> =>
        ret[1].out =
            Return(Num(IF /\ ret[1].args[2][1] \in 1..10
                          /\ ret[1].args[1] \in {"C", "R", "S", "SS"}
                       THEN skill_difficulty_factors[ret[1].args[2][1]][ret[1].args[1]]
                       ELSE 2000))

\* the factor a scorer whose table is loaded looks up
RefLookup(class, skill) == DifficultyFactorOf(scorer[1], class, skill).val

\* C15: in the table a scorer has loaded, the class C factor does not
\* increase and the class SS factor does not decrease from one skill level
\* to the next over 1..10, and every entry lies in [500, 5000]
C15_TableMonotone ==
    scorer # <<>> /\ scorer[1].skill_table =>
        /\ \A k \in 1..9 :
              /\ RLe(RefLookup("C", k + 1), RefLookup("C", k))
              /\ RLe(RefLookup("SS", k), RefLookup("SS", k + 1))
        /\ \A k \in 1..10, class \in {"C", "R", "S", "SS"} :
              RLe(Num(500), RefLookup(class, k)) /\ RLe(RefLookup(class, k), Num(5000))

\* a loaded scorer has looked up 5000, the class SS factor of skill level 10
C15_Witness ==
    /\ DifficultyFactorCalled /\ ret[1].loaded
    /\ scorer # <<>> /\ scorer[1].skill_table
    /\ ret[1].args = <<"SS", <<10>> >> /\ ret[1].out = Return(Num(5000))

\* the non-null skill levels of the crew's members
RefSkills(crew_id) ==
    SelectSeq([i \in 1..Len(crew_members) |-> crew_members[i].skill_level],
              LAMBDA v : v # Null)

\* whether r is an integer nearest to sum/n
RefNearest(r, total, n) == Abs(2 * total - 2 * r * n) <= n

RefClamp(r) == IF r < 1 THEN 1 ELSE IF r > 10 THEN 10 ELSE r

\* C16, as stated: get_crew_skill_level returns 5 when no member has a
\* skill level, and otherwise the average of the non-null skill levels
\* rounded to a nearest integer and clamped to [1, 10]
C16_CrewSkillLevel ==
    ret # <<>> /\ ret[1].op = "get_crew_skill_level" =>
        LET skills == RefSkills(ret[1].crew_id)
            total  == RefSum([i \in 1..Len(skills) |-> Num(skills[i][1])],
                             Len(skills)).n
        IN  /\ ret[1].out.exc = ""
            /\ ret[1].out.val \in 1..10
            /\ IF skills = <<>> THEN ret[1].out.val = 5
               ELSE \E r \in -1..13 :
                       /\ RefNearest(r, total, Len(skills))
                       /\ ret[1].out.val = RefClamp(r)

----------------------------------------------------------------------------
(* Properties of the instance state of a scorer, checked under SpecSkill   *)

\* what a newly constructed scorer with the arguments of the recorded call
\* returns for that call on the tables as they are
RefFreshOutcome ==
    LET fresh == PhilmontScorer(ret[1].crew_id, ret[1].trek_type)
    IN  CASE ret[1].op = "get_score_factor" ->
                Return(get_score_factor(fresh, DB, ret[1].args[1]))
          [] ret[1].op = "get_program_scores" ->
                get_program_scores(fresh, DB, ret[1].method)
          [] ret[1].op = "calculate_itinerary_scores" ->
                calculate_itinerary_scores(fresh, DB, ret[1].method)

\* C25, as stated: what a get_score_factor, get_program_scores or
\* calculate_itinerary_scores call returns depends on the tables at the time
\* of the call only, not on earlier calls on the scorer: it is what a newly
\* constructed scorer returns, also after scoring_factors was changed
C25_NoCaching ==
    /\ ret # <<>>
    /\ ret[1].op \in {"get_score_factor", "get_program_scores",
                      "calculate_itinerary_scores"}
    => ret[1].out = RefFreshOutcome

\* C27, as stated: the skill/difficulty table is initialised before it is
\* read, whatever the order of calls: set_itinerary_difficulty_factor and
\* _calculate_difficulty_score succeed on a scorer on which get_score_factor
\* was never called, and no calculate_itinerary_scores run fails on the
\* lookup
C27_TableInitialisedBeforeRead ==
    /\ ret # <<>>
    /\ ret[1].op \in {"set_itinerary_difficulty_factor", "calculate_difficulty_score",
                      "calculate_itinerary_scores"}
    => ret[1].out.exc = ""

----------------------------------------------------------------------------
(* Properties of the two readings of the ratings, checked under Spec       *)

\* the id of the program of that name
RefProgramId(name) ==
    programs[CHOOSE i \in 1..Len(programs) : programs[i].name = name].id

\* C28, as stated: with adult weighting disabled, the rating the peak
\* sub-scorer computes for a Landmarks program under Total, Average or
\* Median is the value get_program_scores holds for it under that method,
\* and the program is missing from the one exactly when it is missing from
\* the other, in every state of the ratings and members tables the handlers
\* can reach
C28_PeakRatingIsProgramScore ==
    /\ CalcReturned
    /\ ret[1].method \in {"Total", "Average", "Median"}
    /\ \A i \in 1..Len(crew_preferences) :
          crew_preferences[i].adult_program_weight_enabled = 0
    => \A k \in 1..Len(peaks) :
          LET s == PhilmontScorer(ret[1].crew_id, ret[1].trek_type)
              rating == PeakProgramScore(s, DB, peaks[k].landmark, ret[1].method)
              held == get_program_scores(s, DB, ret[1].method).val
              p == RefProgramId(peaks[k].landmark)
          IN  IF rating = <<>> THEN p \notin DOMAIN held
              ELSE p \in DOMAIN held /\ held[p] = rating[1]

----------------------------------------------------------------------------
(* The results page: the trek type of the crew is chosen from the types    *)
(* that have itineraries, then the ranking is built for it.                *)

MaxCatalog == 2      \* most itineraries in a catalog of the results page

\* the trek types the importer writes, in the order ORDER BY trek_type gives
ImportedTrekTypes == <<"12-day", "7-day", "9-day", "cavalcade">>

\* position of a trek type in the order of ORDER BY trek_type
TrekRank(trek_type) ==
    CHOOSE k \in 1..Len(ImportedTrekTypes) : ImportedTrekTypes[k] = trek_type

\* SELECT DISTINCT trek_type FROM itineraries ORDER BY trek_type
get_available_trek_types ==
    OrderBy(CounterKeys(List([i \in 1..Len(itineraries) |-> itineraries[i].trek_type])),
            LAMBDA t : TrekRank(t))

get_crew_trek_type(db, crew_id) ==
    LET prefs == PrefsRow(db, crew_id)
        preferred_type == IF prefs # <<>> /\ prefs[1].trek_type # ""
                          THEN prefs[1].trek_type ELSE "12-day"
        available_types == get_available_trek_types
    IN  IF \E k \in 1..Len(available_types) : available_types[k] = preferred_type
        THEN preferred_type
        ELSE IF available_types # <<>> THEN available_types[1]
        ELSE "12-day"

\* the first rows of the catalog, imported under the trek types given
TypedCatalog(types) ==
    List([i \in 1..Len(types) |-> [Catalog[i] EXCEPT !.trek_type = types[i]]])

\* every catalog of up to MaxCatalog itineraries; no member or one member of
\* unknown age, who may have rated Baldy Mountain; no preference row, or one
\* with any stored trek type (none, the four of the form) and the adult
\* weighting off or on
InitTrek ==
    /\ itineraries \in
          { TypedCatalog(types) :
              types \in BoundedSeq({ImportedTrekTypes[k] : k \in 1..Len(ImportedTrekTypes)},
                                  MaxCatalog) }
    /\ crew_members \in {<<>>, MembersOf(<< [age |-> Null, skill_level |-> Some(6)] >>)}
    /\ program_scores \in
          {<<>>, RatingsOf(<< [crew_member_id |-> 1, program_id |-> 1, score |-> 10] >>)}
    /\ crew_preferences \in
          {<<>>} \cup
          { << [UncheckedPreferences EXCEPT
                !.trek_type = t, !.adult_program_weight_enabled = w] >> :
              t \in {"", "12-day", "9-day", "7-day", "Cavalcade"}, w \in {0, 1} }
    /\ scoring_factors = FactorTable
    /\ scorer = <<>>
    /\ ret = <<>>
    /\ runs = <<>>
    /\ InitAggIdle

\* GET /results of a user of crew 1; the scorer is local to the request
results(method) ==
    LET crew_id == 1
        trek_type == get_crew_trek_type(DB, crew_id)
        s == PhilmontScorer(crew_id, trek_type)
    IN  /\ ret' = <<CallRecord("results", s, method,
                               calculate_itinerary_scores(s, DB, method))>>
        /\ ret' # ret
        /\ UNCHANGED <<dbvars, scorer, aggvars, itineraries, runs>>

NextTrek == \E method \in {"Total", "Average"} : results(method)

SpecTrek == InitTrek /\ [][NextTrek]_vars

----------------------------------------------------------------------------
(* Properties of the trek type of the results page, checked under SpecTrek *)

\* the trek types in sorted order, as the claim's "first in sorted order"
RefSortedTypes == <<"12-day", "7-day", "9-day", "cavalcade">>

RefHasItineraries(trek_type) ==
    \E i \in 1..Len(itineraries) : itineraries[i].trek_type = trek_type

\* the stored type when it has itineraries; otherwise "12-day" when that has
\* itineraries, else the first type in sorted order that has, else "12-day"
RefTrekType ==
    LET stored == RefPref("trek_type", "")
    IN  IF stored # "" /\ RefHasItineraries(stored) THEN stored
        ELSE IF RefHasItineraries("12-day") THEN "12-day"
        ELSE IF \E k \in 1..Len(RefSortedTypes) : RefHasItineraries(RefSortedTypes[k])
        THEN RefSortedTypes[CHOOSE k \in 1..Len(RefSortedTypes) :
                              /\ RefHasItineraries(RefSortedTypes[k])
                              /\ \A j \in 1..(k - 1) :
                                    ~RefHasItineraries(RefSortedTypes[j])]
        ELSE "12-day"

\* C30: the results page scores the crew's stored trek type when it has
\* itineraries, otherwise "12-day" when that has itineraries, otherwise the
\* first type in sorted order that has itineraries, otherwise "12-day"; so
\* whenever the catalog is non-empty the type has an itinerary and the
\* ranking built for it is a non-empty list
C30_TrekTypeFallback ==
    ret # <<>> /\ ret[1].op = "results" =>
        /\ ret[1].trek_type = RefTrekType
        /\ itineraries # <<>> =>
              /\ RefHasItineraries(ret[1].trek_type)
              /\ ret[1].out.exc = ""
              /\ ret[1].out.val # <<>>

----------------------------------------------------------------------------
(* calculate_itinerary_scores step by step.  Each of its queries opens its *)
(* own connection, so a commit or a step of another request may fall       *)
(* between any two of them.  A run is the call of one instance: pc is      *)
(* "start", "scores" once get_program_scores has returned, "loop" once the  *)
(* preferences and the itineraries are fetched, and "done".               *)

\* scorer = PhilmontScorer(crew_id, trek_type), before the call
NewRun(crew_id, trek_type) ==
    [ crew_id |-> crew_id, trek_type |-> trek_type,
      s |-> PhilmontScorer(crew_id, trek_type), method |-> "", pc |-> "start",
      program_scores |-> NotCalled, crew_prefs |-> <<>>, rows |-> <<>>,
      results |-> <<>>, out |-> NotCalled ]

\* every run works on the instance of another run
RunInstanceShared(rs, r) == rs[1].s

\* self: the instance the steps of run r work on
RunInstance(rs, r) == rs[r].s

\* program_scores = self.get_program_scores(method)
BeginRun(r, method) ==
    LET fetched == get_program_scores(RunInstance(runs, r), DB, method)
    IN  /\ runs[r].pc = "start"
        /\ runs' = [runs EXCEPT ![r] =
                      [@ EXCEPT !.method = method, !.program_scores = fetched,
                                !.pc = IF fetched.exc # "" THEN "done" ELSE "scores",
                                !.out = IF fetched.exc # "" THEN Raise(fetched.exc)
                                        ELSE @]]
        /\ UNCHANGED <<dbvars, scorer, ret, aggvars, itineraries>>

\* crew_prefs = self._get_crew_preferences(), then the SELECT of the
\* itineraries; with no itinerary the call returns []
FetchRun(r) ==
    LET s == RunInstance(runs, r)
        rows == ItineraryRows(s.trek_type)
    IN  /\ runs[r].pc = "scores"
        /\ runs' = [runs EXCEPT ![r] =
                      [@ EXCEPT !.crew_prefs = get_crew_preferences(s, DB),
                                !.rows = rows,
                                !.pc = IF rows = <<>> THEN "done" ELSE "loop",
                                !.out = IF rows = <<>> THEN Return(<<>>) ELSE @]]
        /\ UNCHANGED <<dbvars, scorer, ret, aggvars, itineraries>>

\* one iteration of the scoring loop: the sub-scorers read the tables as
\* they are now, and the instance keeps the factors it loads
ScoreNext(r) ==
    LET s == RunInstance(runs, r)
        i == Len(runs[r].results) + 1
        result == ScoreItinerary(s, DB, runs[r].rows[i], runs[r].program_scores.val,
                                 runs[r].crew_prefs, runs[r].method)
    IN  /\ runs[r].pc = "loop"
        /\ i <= Len(runs[r].rows)
        /\ runs' = [runs EXCEPT ![r] =
                      [@ EXCEPT !.results = Append(@, result),
                                !.s = after_get_score_factor(s, DB),
                                !.pc = IF result.exc # "" THEN "done" ELSE @,
                                !.out = IF result.exc # "" THEN Raise("AttributeError")
                                        ELSE @]]
        /\ UNCHANGED <<dbvars, scorer, ret, aggvars, itineraries>>

\* the sort, the ranking and the return
FinishRun(r) ==
    /\ runs[r].pc = "loop"
    /\ Len(runs[r].results) = Len(runs[r].rows)
    /\ runs' = [runs EXCEPT ![r] =
                  [@ EXCEPT !.pc = "done", !.out = SortAndRank(runs[r].results)]]
    /\ UNCHANGED <<dbvars, scorer, ret, aggvars, itineraries>>

----------------------------------------------------------------------------
(* The runs of two crews, their steps interleaved, over tables that hold   *)
(* rows of both crews and do not change                                    *)

\* crew 1: member 1 (16) with its ratings; crew 2: member 2 (30) with its
\* ratings; each crew with a preference row of its own
InitTwoCrews ==
    /\ crew_members =
          << [id |-> 1, crew_id |-> 1, age |-> Some(16), skill_level |-> Some(3)],
             [id |-> 2, crew_id |-> 2, age |-> Some(30), skill_level |-> Some(9)] >>
    /\ program_scores \in
          { << [crew_id |-> 1, crew_member_id |-> 1, program_id |-> 1, score |-> 10],
               [crew_id |-> 2, crew_member_id |-> 2, program_id |-> 1, score |-> 5],
               [crew_id |-> 2, crew_member_id |-> 2, program_id |-> 2, score |-> 10] >>,
            << [crew_id |-> 2, crew_member_id |-> 2, program_id |-> 4, score |-> 5] >> }
    /\ crew_preferences \in
          { << row1, [row2 EXCEPT !.crew_id = 2] >> :
              row1 \in PreferenceInputs, row2 \in PreferenceInputs }
    /\ scoring_factors \in {FactorTable, FactorOverrides}
    /\ scorer = <<>>
    /\ ret = <<>>
    /\ itineraries = Catalog
    /\ runs = << NewRun(1, "9-day"), NewRun(2, "9-day") >>
    /\ InitAggIdle

NextTwoCrews ==
    \/ \E r \in 1..Len(runs) : BeginRun(r, "Total")
    \/ \E r \in 1..Len(runs) : FetchRun(r)
    \/ \E r \in 1..Len(runs) : ScoreNext(r)
    \/ \E r \in 1..Len(runs) : FinishRun(r)

SpecTwoCrews == InitTwoCrews /\ [][NextTwoCrews]_vars

----------------------------------------------------------------------------
(* One run of crew 1 while POST /scores requests of the crew commit        *)

InitRace ==
    /\ crew_members = MembersOf(<< [age |-> Some(16), skill_level |-> Some(3)],
                                   [age |-> Some(30), skill_level |-> Some(9)] >>)
    /\ program_scores =
          RatingsOf(<< [crew_member_id |-> 1, program_id |-> 1, score |-> 10] >>)
    /\ crew_preferences \in {<<>>} \cup {<<row>> : row \in PreferenceInputs}
    /\ scoring_factors = FactorTable
    /\ scorer = <<>>
    /\ ret = <<>>
    /\ itineraries = Catalog
    /\ runs = << NewRun(1, "9-day") >>
    /\ InitAggIdle

NextRace ==
    \/ \E method \in {"Total", "Average"} : BeginRun(1, method)
    \/ FetchRun(1)
    \/ ScoreNext(1)
    \/ FinishRun(1)
    \/ \E form \in {f \in ScoreForms : Len(f) = 1} : save_scores(form)

SpecRace == InitRace /\ [][NextRace]_vars

----------------------------------------------------------------------------
(* Properties of concurrent runs, checked under SpecTwoCrews and SpecRace  *)

\* the outcome of the call of run r made alone on the tables as they are
RefAlone(r) ==
    calculate_itinerary_scores(PhilmontScorer(runs[r].crew_id, runs[r].trek_type),
                               DB, runs[r].method)

\* C26: over unchanged tables, however the steps of the runs of two crews
\* are interleaved, each run returns what the call of that crew returns
\* when it is made alone
C26_RunsShareNoState ==
    \A r \in 1..Len(runs) : runs[r].pc = "done" => runs[r].out = RefAlone(r)

\* both runs have returned, each a ranking of its own
C26_Witness ==
    /\ Len(runs) = 2
    /\ \A r \in 1..2 : /\ runs[r].pc = "done" /\ runs[r].out.exc = ""
                       /\ Len(runs[r].out.val) = 4
    /\ runs[1].crew_id # runs[2].crew_id
    /\ runs[1].out # runs[2].out

\* the ratings tables of crew 1 there can ever be: the one the run starts
\* from and the ones a commit of one score field leaves
RefRatingVersions ==
    { << [crew_id |-> 1, crew_member_id |-> 1, program_id |-> 1, score |-> 10] >> }
    \cup { << [crew_id |-> 1, crew_member_id |-> m, program_id |-> p,
               score |-> (((m + p) % 2) + 1) * 5] >> : m \in 1..2, p \in 1..2 }

\* C29: a ranking run during which save_scores commits returns the ranking
\* of one version of the ratings: the program and peak sub-scores of every
\* itinerary all derive from the same table, the one before or the one after
\* a commit
C29_OneVersionOfRatings ==
    \A r \in 1..Len(runs) :
        runs[r].pc = "done" /\ runs[r].out.exc = "" =>
            \E version \in RefRatingVersions :
                runs[r].out =
                    calculate_itinerary_scores(
                        PhilmontScorer(runs[r].crew_id, runs[r].trek_type),
                        [DB EXCEPT !.program_scores = version], runs[r].method)

====
